---------------------------- MODULE Spec2Model ----------------------------
(***************************************************************************)
(* A model of the UCAN fixture generator (ucan-wg/conformance-tests):      *)
(* the tamper engine of src/generators/mutate.rs, the four fixture         *)
(* generators and the run of main.rs.                                      *)
(*                                                                         *)
(* Text is a sequence of byte values (ASCII codes).  A JSON value          *)
(* (serde_json::Value) is a record tagged by t:                            *)
(*   [t |-> "null"], [t |-> "bool", b |-> BOOLEAN],                        *)
(*   [t |-> "num", n |-> decimal digits], [t |-> "str", s |-> text],       *)
(*   [t |-> "arr", a |-> sequence of values],                              *)
(*   [t |-> "obj", o |-> function from keys (text) to values].             *)
(* A number is kept as its decimal text because the timestamps of the      *)
(* source (9246211200, 14069142000) do not fit TLC's 32-bit integers.      *)
(***************************************************************************)
EXTENDS Integers, Sequences, FiniteSets, TLC

VARIABLES
    \* --- the tamper engine exercised on its own (SpecTamper) ---
    t_token,    \* the token handed to remove_field / mutate_field
    t_call,     \* the last call: [op, part, field, value, signer], or NoCall
    t_result,   \* what that call returned: [ok, token] or [ok, panic]
    t_again,    \* what the same call returned on its own result (remove_field only)
    t_codec,    \* one round trip of the codec: [map, part, back, again], or NoCodec
    \* --- a run of main (SpecRun) ---
    pc,               \* the statement of main being executed
    run,              \* which of two runs this is: "first", "second"
    idx,              \* the scenario of the generator being awaited
    made,             \* the (cid, token) pairs of the proofs the scenario has made
    identities,       \* the Identities of the generator, once created
    verify_fixtures,  \* the vectors the four generators return
    refute_fixtures,
    build_fixtures,
    to_cid_fixtures,
    all_fixtures,     \* the Vec<Value> of main
    files,            \* the files written: path -> content
    printed,          \* the paths whose write error was printed
    built,            \* every token signed in this run, as signed, in order
    prev,             \* built, of the run before
    prev_all,         \* all_fixtures, of the run before
    stderr            \* where the run panicked: the statement, or the scenario

tamper_vars == <<t_token, t_call, t_result, t_again, t_codec>>

run_vars == <<pc, run, idx, made, identities,
              verify_fixtures, refute_fixtures, build_fixtures, to_cid_fixtures,
              all_fixtures, files, printed, built, prev, prev_all, stderr>>

vars == <<tamper_vars, run_vars>>

-----------------------------------------------------------------------------
(* Bytes and text *)

\* The bytes of the string literals the model uses (str::as_bytes).
AsciiOf ==
    "alg" :>
        <<97, 108, 103>>
    @@
    "typ" :>
        <<116, 121, 112>>
    @@
    "EdDSA" :>
        <<69, 100, 68, 83, 65>>
    @@
    "JWT" :>
        <<74, 87, 84>>
    @@
    "iss" :>
        <<105, 115, 115>>
    @@
    "exp" :>
        <<101, 120, 112>>
    @@
    "zzz" :>
        <<122, 122, 122>>
    @@
    "q\"k" :>
        <<113, 34, 107>>
    @@
    "x\"\\y" :>
        <<120, 34, 92, 121>>
    @@
    "NOT_JWT" :>
        <<78, 79, 84, 95, 74, 87, 84>>
    @@
    "{\"typ\":\"JWT\",\"alg\":\"EdDSA\"}" :>
        <<123, 34, 116, 121, 112, 34, 58, 34, 74, 87, 84, 34, 44, 34, 97, 108, 103, 34, 58, 34, 69, 100, 68, 83, 65, 34, 125>>
    @@
    " {\"iss\":\"x\", \"exp\":1,\"exp\":2} " :>
        <<32, 123, 34, 105, 115, 115, 34, 58, 34, 120, 34, 44, 32, 34, 101, 120, 112, 34, 58, 49, 44, 34, 101, 120, 112, 34, 58, 50, 125, 32>>
    @@
    "[1]" :>
        <<91, 49, 93>>
    @@
    "e30=" :>
        <<101, 51, 48, 61>>
    @@
    "ucv" :>
        <<117, 99, 118>>
    @@
    "aud" :>
        <<97, 117, 100>>
    @@
    "nbf" :>
        <<110, 98, 102>>
    @@
    "nnc" :>
        <<110, 110, 99>>
    @@
    "cap" :>
        <<99, 97, 112>>
    @@
    "fct" :>
        <<102, 99, 116>>
    @@
    "prf" :>
        <<112, 114, 102>>
    @@
    "0.10.0-canary" :>
        <<48, 46, 49, 48, 46, 48, 45, 99, 97, 110, 97, 114, 121>>
    @@
    "0.10" :>
        <<48, 46, 49, 48>>
    @@
    "did:key:z6Mkk89bC3JrVqKie71YEcc5M1SMVxuCgNx6zLZ8SYJsxALi" :>
        <<100, 105, 100, 58, 107, 101, 121, 58, 122, 54, 77, 107, 107, 56, 57, 98, 67, 51, 74, 114, 86, 113, 75, 105, 101, 55, 49, 89, 69, 99, 99, 53, 77, 49, 83, 77, 86, 120, 117, 67, 103, 78, 120, 54, 122, 76, 90, 56, 83, 89, 74, 115, 120, 65, 76, 105>>
    @@
    "did:key:z6MkffDZCkCTWreg8868fG1FGFogcJj5X6PY93pPcWDn9bob" :>
        <<100, 105, 100, 58, 107, 101, 121, 58, 122, 54, 77, 107, 102, 102, 68, 90, 67, 107, 67, 84, 87, 114, 101, 103, 56, 56, 54, 56, 102, 71, 49, 70, 71, 70, 111, 103, 99, 74, 106, 53, 88, 54, 80, 89, 57, 51, 112, 80, 99, 87, 68, 110, 57, 98, 111, 98>>
    @@
    "did:key:z6MktafZTREjJkvV5mfJxcLpNBoVPwDLhTuMg9ng7dY4zMAL" :>
        <<100, 105, 100, 58, 107, 101, 121, 58, 122, 54, 77, 107, 116, 97, 102, 90, 84, 82, 69, 106, 74, 107, 118, 86, 53, 109, 102, 74, 120, 99, 76, 112, 78, 66, 111, 86, 80, 119, 68, 76, 104, 84, 117, 77, 103, 57, 110, 103, 55, 100, 89, 52, 122, 77, 65, 76>>
    @@
    "z6Mkk89bC3JrVqKie71YEcc5M1SMVxuCgNx6zLZ8SYJsxALi" :>
        <<122, 54, 77, 107, 107, 56, 57, 98, 67, 51, 74, 114, 86, 113, 75, 105, 101, 55, 49, 89, 69, 99, 99, 53, 77, 49, 83, 77, 86, 120, 117, 67, 103, 78, 120, 54, 122, 76, 90, 56, 83, 89, 74, 115, 120, 65, 76, 105>>
    @@
    "z6MkffDZCkCTWreg8868fG1FGFogcJj5X6PY93pPcWDn9bob" :>
        <<122, 54, 77, 107, 102, 102, 68, 90, 67, 107, 67, 84, 87, 114, 101, 103, 56, 56, 54, 56, 102, 71, 49, 70, 71, 70, 111, 103, 99, 74, 106, 53, 88, 54, 80, 89, 57, 51, 112, 80, 99, 87, 68, 110, 57, 98, 111, 98>>
    @@
    "mailto:alice@email.com" :>
        <<109, 97, 105, 108, 116, 111, 58, 97, 108, 105, 99, 101, 64, 101, 109, 97, 105, 108, 46, 99, 111, 109>>
    @@
    "mailto:marketing@email.com" :>
        <<109, 97, 105, 108, 116, 111, 58, 109, 97, 114, 107, 101, 116, 105, 110, 103, 64, 101, 109, 97, 105, 108, 46, 99, 111, 109>>
    @@
    "email/send" :>
        <<101, 109, 97, 105, 108, 47, 115, 101, 110, 100>>
    @@
    "templates" :>
        <<116, 101, 109, 112, 108, 97, 116, 101, 115>>
    @@
    "newsletter" :>
        <<110, 101, 119, 115, 108, 101, 116, 116, 101, 114>>
    @@
    "marketing" :>
        <<109, 97, 114, 107, 101, 116, 105, 110, 103>>
    @@
    "challenge" :>
        <<99, 104, 97, 108, 108, 101, 110, 103, 101>>
    @@
    "abcdef" :>
        <<97, 98, 99, 100, 101, 102>>
    @@
    "placeholder" :>
        <<112, 108, 97, 99, 101, 104, 111, 108, 100, 101, 114>>
    @@
    "we" :>
        <<119, 101>>
    @@
    "prove" :>
        <<112, 114, 111, 118, 101>>
    @@
    "nothing" :>
        <<110, 111, 116, 104, 105, 110, 103>>
    @@
    "1" :>
        <<49>>
    @@
    "2" :>
        <<50>>
    @@
    "86" :>
        <<56, 54>>
    @@
    "9246211200" :>
        <<57, 50, 52, 54, 50, 49, 49, 50, 48, 48>>
    @@
    "14069142000" :>
        <<49, 52, 48, 54, 57, 49, 52, 50, 48, 48, 48>>
    @@
    "U+bzp2GaFQHso587iSFWPSeCzbSfn/CbNHEz7ilKRZ1UQMmMS7qq4UhTzKn3X9Nj/4xgrwa+UqhMOeo4Ki8JUw==" :>
        <<85, 43, 98, 122, 112, 50, 71, 97, 70, 81, 72, 115, 111, 53, 56, 55, 105, 83, 70, 87, 80, 83, 101, 67, 122, 98, 83, 102, 110, 47, 67, 98, 78, 72, 69, 122, 55, 105, 108, 75, 82, 90, 49, 85, 81, 77, 109, 77, 83, 55, 113, 113, 52, 85, 104, 84, 122, 75, 110, 51, 88, 57, 78, 106, 47, 52, 120, 103, 114, 119, 97, 43, 85, 113, 104, 77, 79, 101, 111, 52, 75, 105, 56, 74, 85, 119, 61, 61>>
    @@
    "Ed25519" :>
        <<69, 100, 50, 53, 53, 49, 57>>
    @@
    "SHA2-256" :>
        <<83, 72, 65, 50, 45, 50, 53, 54>>
    @@
    "BLAKE3-256" :>
        <<66, 76, 65, 75, 69, 51, 45, 50, 53, 54>>
    @@
    "bafkrei" :>
        <<98, 97, 102, 107, 114, 101, 105>>
    @@
    "bafkr4i" :>
        <<98, 97, 102, 107, 114, 52, 105>>
    @@
    "UCAN has not expired" :>
        <<85, 67, 65, 78, 32, 104, 97, 115, 32, 110, 111, 116, 32, 101, 120, 112, 105, 114, 101, 100>>
    @@
    "UCAN is ready to be used" :>
        <<85, 67, 65, 78, 32, 105, 115, 32, 114, 101, 97, 100, 121, 32, 116, 111, 32, 98, 101, 32, 117, 115, 101, 100>>
    @@
    "UCAN has same time bounds as proof" :>
        <<85, 67, 65, 78, 32, 104, 97, 115, 32, 115, 97, 109, 101, 32, 116, 105, 109, 101, 32, 98, 111, 117, 110, 100, 115, 32, 97, 115, 32, 112, 114, 111, 111, 102>>
    @@
    "UCAN expires before proof" :>
        <<85, 67, 65, 78, 32, 101, 120, 112, 105, 114, 101, 115, 32, 98, 101, 102, 111, 114, 101, 32, 112, 114, 111, 111, 102>>
    @@
    "UCAN active after proof" :>
        <<85, 67, 65, 78, 32, 97, 99, 116, 105, 118, 101, 32, 97, 102, 116, 101, 114, 32, 112, 114, 111, 111, 102>>
    @@
    "UCAN has a well-formed capability" :>
        <<85, 67, 65, 78, 32, 104, 97, 115, 32, 97, 32, 119, 101, 108, 108, 45, 102, 111, 114, 109, 101, 100, 32, 99, 97, 112, 97, 98, 105, 108, 105, 116, 121>>
    @@
    "UCAN has a well-formed capability with a caveat" :>
        <<85, 67, 65, 78, 32, 104, 97, 115, 32, 97, 32, 119, 101, 108, 108, 45, 102, 111, 114, 109, 101, 100, 32, 99, 97, 112, 97, 98, 105, 108, 105, 116, 121, 32, 119, 105, 116, 104, 32, 97, 32, 99, 97, 118, 101, 97, 116>>
    @@
    "UCAN has multiple well-formed capabilities" :>
        <<85, 67, 65, 78, 32, 104, 97, 115, 32, 109, 117, 108, 116, 105, 112, 108, 101, 32, 119, 101, 108, 108, 45, 102, 111, 114, 109, 101, 100, 32, 99, 97, 112, 97, 98, 105, 108, 105, 116, 105, 101, 115>>
    @@
    "UCAN issuer matches proof audience" :>
        <<85, 67, 65, 78, 32, 105, 115, 115, 117, 101, 114, 32, 109, 97, 116, 99, 104, 101, 115, 32, 112, 114, 111, 111, 102, 32, 97, 117, 100, 105, 101, 110, 99, 101>>
    @@
    "UCAN has a delegated capability" :>
        <<85, 67, 65, 78, 32, 104, 97, 115, 32, 97, 32, 100, 101, 108, 101, 103, 97, 116, 101, 100, 32, 99, 97, 112, 97, 98, 105, 108, 105, 116, 121>>
    @@
    "UCAN merges delegated capabilities" :>
        <<85, 67, 65, 78, 32, 109, 101, 114, 103, 101, 115, 32, 100, 101, 108, 101, 103, 97, 116, 101, 100, 32, 99, 97, 112, 97, 98, 105, 108, 105, 116, 105, 101, 115>>
    @@
    "UCAN capability caveats equal to proof caveats" :>
        <<85, 67, 65, 78, 32, 99, 97, 112, 97, 98, 105, 108, 105, 116, 121, 32, 99, 97, 118, 101, 97, 116, 115, 32, 101, 113, 117, 97, 108, 32, 116, 111, 32, 112, 114, 111, 111, 102, 32, 99, 97, 118, 101, 97, 116, 115>>
    @@
    "UCAN capability attenuates existing caveats" :>
        <<85, 67, 65, 78, 32, 99, 97, 112, 97, 98, 105, 108, 105, 116, 121, 32, 97, 116, 116, 101, 110, 117, 97, 116, 101, 115, 32, 101, 120, 105, 115, 116, 105, 110, 103, 32, 99, 97, 118, 101, 97, 116, 115>>
    @@
    "UCAN capability attenuates from no caveats" :>
        <<85, 67, 65, 78, 32, 99, 97, 112, 97, 98, 105, 108, 105, 116, 121, 32, 97, 116, 116, 101, 110, 117, 97, 116, 101, 115, 32, 102, 114, 111, 109, 32, 110, 111, 32, 99, 97, 118, 101, 97, 116, 115>>
    @@
    "UCAN has a fact" :>
        <<85, 67, 65, 78, 32, 104, 97, 115, 32, 97, 32, 102, 97, 99, 116>>
    @@
    "UCAN has expired" :>
        <<85, 67, 65, 78, 32, 104, 97, 115, 32, 101, 120, 112, 105, 114, 101, 100>>
    @@
    "UCAN is not ready to be used" :>
        <<85, 67, 65, 78, 32, 105, 115, 32, 110, 111, 116, 32, 114, 101, 97, 100, 121, 32, 116, 111, 32, 98, 101, 32, 117, 115, 101, 100>>
    @@
    "UCAN expires after proofs" :>
        <<85, 67, 65, 78, 32, 101, 120, 112, 105, 114, 101, 115, 32, 97, 102, 116, 101, 114, 32, 112, 114, 111, 111, 102, 115>>
    @@
    "UCAN ready before proofs" :>
        <<85, 67, 65, 78, 32, 114, 101, 97, 100, 121, 32, 98, 101, 102, 111, 114, 101, 32, 112, 114, 111, 111, 102, 115>>
    @@
    "UCAN header is missing typ field" :>
        <<85, 67, 65, 78, 32, 104, 101, 97, 100, 101, 114, 32, 105, 115, 32, 109, 105, 115, 115, 105, 110, 103, 32, 116, 121, 112, 32, 102, 105, 101, 108, 100>>
    @@
    "UCAN header is missing alg field" :>
        <<85, 67, 65, 78, 32, 104, 101, 97, 100, 101, 114, 32, 105, 115, 32, 109, 105, 115, 115, 105, 110, 103, 32, 97, 108, 103, 32, 102, 105, 101, 108, 100>>
    @@
    "UCAN payload is missing ucv field" :>
        <<85, 67, 65, 78, 32, 112, 97, 121, 108, 111, 97, 100, 32, 105, 115, 32, 109, 105, 115, 115, 105, 110, 103, 32, 117, 99, 118, 32, 102, 105, 101, 108, 100>>
    @@
    "UCAN payload is missing iss field" :>
        <<85, 67, 65, 78, 32, 112, 97, 121, 108, 111, 97, 100, 32, 105, 115, 32, 109, 105, 115, 115, 105, 110, 103, 32, 105, 115, 115, 32, 102, 105, 101, 108, 100>>
    @@
    "UCAN payload is missing aud field" :>
        <<85, 67, 65, 78, 32, 112, 97, 121, 108, 111, 97, 100, 32, 105, 115, 32, 109, 105, 115, 115, 105, 110, 103, 32, 97, 117, 100, 32, 102, 105, 101, 108, 100>>
    @@
    "UCAN payload is missing exp field" :>
        <<85, 67, 65, 78, 32, 112, 97, 121, 108, 111, 97, 100, 32, 105, 115, 32, 109, 105, 115, 115, 105, 110, 103, 32, 101, 120, 112, 32, 102, 105, 101, 108, 100>>
    @@
    "UCAN payload is missing cap field" :>
        <<85, 67, 65, 78, 32, 112, 97, 121, 108, 111, 97, 100, 32, 105, 115, 32, 109, 105, 115, 115, 105, 110, 103, 32, 99, 97, 112, 32, 102, 105, 101, 108, 100>>
    @@
    "UCAN header alg field is not a string" :>
        <<85, 67, 65, 78, 32, 104, 101, 97, 100, 101, 114, 32, 97, 108, 103, 32, 102, 105, 101, 108, 100, 32, 105, 115, 32, 110, 111, 116, 32, 97, 32, 115, 116, 114, 105, 110, 103>>
    @@
    "UCAN header typ field is not a string" :>
        <<85, 67, 65, 78, 32, 104, 101, 97, 100, 101, 114, 32, 116, 121, 112, 32, 102, 105, 101, 108, 100, 32, 105, 115, 32, 110, 111, 116, 32, 97, 32, 115, 116, 114, 105, 110, 103>>
    @@
    "UCAN type is not JWT" :>
        <<85, 67, 65, 78, 32, 116, 121, 112, 101, 32, 105, 115, 32, 110, 111, 116, 32, 74, 87, 84>>
    @@
    "UCAN payload ucv field is not a string" :>
        <<85, 67, 65, 78, 32, 112, 97, 121, 108, 111, 97, 100, 32, 117, 99, 118, 32, 102, 105, 101, 108, 100, 32, 105, 115, 32, 110, 111, 116, 32, 97, 32, 115, 116, 114, 105, 110, 103>>
    @@
    "UCAN payload ucv field is not semantically versioned" :>
        <<85, 67, 65, 78, 32, 112, 97, 121, 108, 111, 97, 100, 32, 117, 99, 118, 32, 102, 105, 101, 108, 100, 32, 105, 115, 32, 110, 111, 116, 32, 115, 101, 109, 97, 110, 116, 105, 99, 97, 108, 108, 121, 32, 118, 101, 114, 115, 105, 111, 110, 101, 100>>
    @@
    "UCAN payload iss field is not a DID" :>
        <<85, 67, 65, 78, 32, 112, 97, 121, 108, 111, 97, 100, 32, 105, 115, 115, 32, 102, 105, 101, 108, 100, 32, 105, 115, 32, 110, 111, 116, 32, 97, 32, 68, 73, 68>>
    @@
    "UCAN payload aud field is not a DID" :>
        <<85, 67, 65, 78, 32, 112, 97, 121, 108, 111, 97, 100, 32, 97, 117, 100, 32, 102, 105, 101, 108, 100, 32, 105, 115, 32, 110, 111, 116, 32, 97, 32, 68, 73, 68>>
    @@
    "UCAN payload nbf field is not a number" :>
        <<85, 67, 65, 78, 32, 112, 97, 121, 108, 111, 97, 100, 32, 110, 98, 102, 32, 102, 105, 101, 108, 100, 32, 105, 115, 32, 110, 111, 116, 32, 97, 32, 110, 117, 109, 98, 101, 114>>
    @@
    "UCAN payload exp field is not a number" :>
        <<85, 67, 65, 78, 32, 112, 97, 121, 108, 111, 97, 100, 32, 101, 120, 112, 32, 102, 105, 101, 108, 100, 32, 105, 115, 32, 110, 111, 116, 32, 97, 32, 110, 117, 109, 98, 101, 114>>
    @@
    "UCAN payload nnc field is not a string" :>
        <<85, 67, 65, 78, 32, 112, 97, 121, 108, 111, 97, 100, 32, 110, 110, 99, 32, 102, 105, 101, 108, 100, 32, 105, 115, 32, 110, 111, 116, 32, 97, 32, 115, 116, 114, 105, 110, 103>>
    @@
    "UCAN payload fct field is not a JSON object" :>
        <<85, 67, 65, 78, 32, 112, 97, 121, 108, 111, 97, 100, 32, 102, 99, 116, 32, 102, 105, 101, 108, 100, 32, 105, 115, 32, 110, 111, 116, 32, 97, 32, 74, 83, 79, 78, 32, 111, 98, 106, 101, 99, 116>>
    @@
    "UCAN payload cap field is not a JSON object" :>
        <<85, 67, 65, 78, 32, 112, 97, 121, 108, 111, 97, 100, 32, 99, 97, 112, 32, 102, 105, 101, 108, 100, 32, 105, 115, 32, 110, 111, 116, 32, 97, 32, 74, 83, 79, 78, 32, 111, 98, 106, 101, 99, 116>>
    @@
    "UCAN payload cap field ability for resource is not a JSON object" :>
        <<85, 67, 65, 78, 32, 112, 97, 121, 108, 111, 97, 100, 32, 99, 97, 112, 32, 102, 105, 101, 108, 100, 32, 97, 98, 105, 108, 105, 116, 121, 32, 102, 111, 114, 32, 114, 101, 115, 111, 117, 114, 99, 101, 32, 105, 115, 32, 110, 111, 116, 32, 97, 32, 74, 83, 79, 78, 32, 111, 98, 106, 101, 99, 116>>
    @@
    "UCAN payload cap field caveat is not an array" :>
        <<85, 67, 65, 78, 32, 112, 97, 121, 108, 111, 97, 100, 32, 99, 97, 112, 32, 102, 105, 101, 108, 100, 32, 99, 97, 118, 101, 97, 116, 32, 105, 115, 32, 110, 111, 116, 32, 97, 110, 32, 97, 114, 114, 97, 121>>
    @@
    "UCAN payload cap field caveat is an empty array" :>
        <<85, 67, 65, 78, 32, 112, 97, 121, 108, 111, 97, 100, 32, 99, 97, 112, 32, 102, 105, 101, 108, 100, 32, 99, 97, 118, 101, 97, 116, 32, 105, 115, 32, 97, 110, 32, 101, 109, 112, 116, 121, 32, 97, 114, 114, 97, 121>>
    @@
    "UCAN payload prf field is not an array" :>
        <<85, 67, 65, 78, 32, 112, 97, 121, 108, 111, 97, 100, 32, 112, 114, 102, 32, 102, 105, 101, 108, 100, 32, 105, 115, 32, 110, 111, 116, 32, 97, 110, 32, 97, 114, 114, 97, 121>>
    @@
    "UCAN payload prf field is not an array of CIDs" :>
        <<85, 67, 65, 78, 32, 112, 97, 121, 108, 111, 97, 100, 32, 112, 114, 102, 32, 102, 105, 101, 108, 100, 32, 105, 115, 32, 110, 111, 116, 32, 97, 110, 32, 97, 114, 114, 97, 121, 32, 111, 102, 32, 67, 73, 68, 115>>
    @@
    "UCAN issuer does not match proof audience" :>
        <<85, 67, 65, 78, 32, 105, 115, 115, 117, 101, 114, 32, 100, 111, 101, 115, 32, 110, 111, 116, 32, 109, 97, 116, 99, 104, 32, 112, 114, 111, 111, 102, 32, 97, 117, 100, 105, 101, 110, 99, 101>>
    @@
    "UCAN claims a capability that has not been delegated" :>
        <<85, 67, 65, 78, 32, 99, 108, 97, 105, 109, 115, 32, 97, 32, 99, 97, 112, 97, 98, 105, 108, 105, 116, 121, 32, 116, 104, 97, 116, 32, 104, 97, 115, 32, 110, 111, 116, 32, 98, 101, 101, 110, 32, 100, 101, 108, 101, 103, 97, 116, 101, 100>>
    @@
    "UCAN escalates by adding a new caveat" :>
        <<85, 67, 65, 78, 32, 101, 115, 99, 97, 108, 97, 116, 101, 115, 32, 98, 121, 32, 97, 100, 100, 105, 110, 103, 32, 97, 32, 110, 101, 119, 32, 99, 97, 118, 101, 97, 116>>
    @@
    "UCAN escalates to no caveats" :>
        <<85, 67, 65, 78, 32, 101, 115, 99, 97, 108, 97, 116, 101, 115, 32, 116, 111, 32, 110, 111, 32, 99, 97, 118, 101, 97, 116, 115>>
    @@
    "UCAN escalates by adding a different caveat" :>
        <<85, 67, 65, 78, 32, 101, 115, 99, 97, 108, 97, 116, 101, 115, 32, 98, 121, 32, 97, 100, 100, 105, 110, 103, 32, 97, 32, 100, 105, 102, 102, 101, 114, 101, 110, 116, 32, 99, 97, 118, 101, 97, 116>>
    @@
    "UCAN has an expiration" :>
        <<85, 67, 65, 78, 32, 104, 97, 115, 32, 97, 110, 32, 101, 120, 112, 105, 114, 97, 116, 105, 111, 110>>
    @@
    "UCAN has a not before" :>
        <<85, 67, 65, 78, 32, 104, 97, 115, 32, 97, 32, 110, 111, 116, 32, 98, 101, 102, 111, 114, 101>>
    @@
    "UCAN delegates send email capability" :>
        <<85, 67, 65, 78, 32, 100, 101, 108, 101, 103, 97, 116, 101, 115, 32, 115, 101, 110, 100, 32, 101, 109, 97, 105, 108, 32, 99, 97, 112, 97, 98, 105, 108, 105, 116, 121>>
    @@
    "UCAN delegates send email capability with newsletter template caveat" :>
        <<85, 67, 65, 78, 32, 100, 101, 108, 101, 103, 97, 116, 101, 115, 32, 115, 101, 110, 100, 32, 101, 109, 97, 105, 108, 32, 99, 97, 112, 97, 98, 105, 108, 105, 116, 121, 32, 119, 105, 116, 104, 32, 110, 101, 119, 115, 108, 101, 116, 116, 101, 114, 32, 116, 101, 109, 112, 108, 97, 116, 101, 32, 99, 97, 118, 101, 97, 116>>
    @@
    "UCAN has a fact with a challenge" :>
        <<85, 67, 65, 78, 32, 104, 97, 115, 32, 97, 32, 102, 97, 99, 116, 32, 119, 105, 116, 104, 32, 97, 32, 99, 104, 97, 108, 108, 101, 110, 103, 101>>
    @@
    "Compute CID for token using SHA2-256 hasher" :>
        <<67, 111, 109, 112, 117, 116, 101, 32, 67, 73, 68, 32, 102, 111, 114, 32, 116, 111, 107, 101, 110, 32, 117, 115, 105, 110, 103, 32, 83, 72, 65, 50, 45, 50, 53, 54, 32, 104, 97, 115, 104, 101, 114>>
    @@
    "Compute CID for token using BLAKE3-256 hasher" :>
        <<67, 111, 109, 112, 117, 116, 101, 32, 67, 73, 68, 32, 102, 111, 114, 32, 116, 111, 107, 101, 110, 32, 117, 115, 105, 110, 103, 32, 66, 76, 65, 75, 69, 51, 45, 50, 53, 54, 32, 104, 97, 115, 104, 101, 114>>
    @@
    "verify" :>
        <<118, 101, 114, 105, 102, 121>>
    @@
    "refute" :>
        <<114, 101, 102, 117, 116, 101>>
    @@
    "build" :>
        <<98, 117, 105, 108, 100>>
    @@
    "toCID" :>
        <<116, 111, 67, 73, 68>>
    @@
    "name" :>
        <<110, 97, 109, 101>>
    @@
    "task" :>
        <<116, 97, 115, 107>>
    @@
    "inputs" :>
        <<105, 110, 112, 117, 116, 115>>
    @@
    "token" :>
        <<116, 111, 107, 101, 110>>
    @@
    "proofs" :>
        <<112, 114, 111, 111, 102, 115>>
    @@
    "assertions" :>
        <<97, 115, 115, 101, 114, 116, 105, 111, 110, 115>>
    @@
    "header" :>
        <<104, 101, 97, 100, 101, 114>>
    @@
    "payload" :>
        <<112, 97, 121, 108, 111, 97, 100>>
    @@
    "signature" :>
        <<115, 105, 103, 110, 97, 116, 117, 114, 101>>
    @@
    "errors" :>
        <<101, 114, 114, 111, 114, 115>>
    @@
    "version" :>
        <<118, 101, 114, 115, 105, 111, 110>>
    @@
    "issuer_base64_key" :>
        <<105, 115, 115, 117, 101, 114, 95, 98, 97, 115, 101, 54, 52, 95, 107, 101, 121>>
    @@
    "signature_scheme" :>
        <<115, 105, 103, 110, 97, 116, 117, 114, 101, 95, 115, 99, 104, 101, 109, 101>>
    @@
    "audience" :>
        <<97, 117, 100, 105, 101, 110, 99, 101>>
    @@
    "not_before" :>
        <<110, 111, 116, 95, 98, 101, 102, 111, 114, 101>>
    @@
    "expiration" :>
        <<101, 120, 112, 105, 114, 97, 116, 105, 111, 110>>
    @@
    "facts" :>
        <<102, 97, 99, 116, 115>>
    @@
    "capabilities" :>
        <<99, 97, 112, 97, 98, 105, 108, 105, 116, 105, 101, 115>>
    @@
    "outputs" :>
        <<111, 117, 116, 112, 117, 116, 115>>
    @@
    "hasher" :>
        <<104, 97, 115, 104, 101, 114>>
    @@
    "cid" :>
        <<99, 105, 100>>
    @@
    "expired" :>
        <<101, 120, 112, 105, 114, 101, 100>>
    @@
    "notReady" :>
        <<110, 111, 116, 82, 101, 97, 100, 121>>
    @@
    "timeBoundsViolation" :>
        <<116, 105, 109, 101, 66, 111, 117, 110, 100, 115, 86, 105, 111, 108, 97, 116, 105, 111, 110>>
    @@
    "missingField" :>
        <<109, 105, 115, 115, 105, 110, 103, 70, 105, 101, 108, 100>>
    @@
    "incorrectType" :>
        <<105, 110, 99, 111, 114, 114, 101, 99, 116, 84, 121, 112, 101>>
    @@
    "incorrectProofs" :>
        <<105, 110, 99, 111, 114, 114, 101, 99, 116, 80, 114, 111, 111, 102, 115>>
    @@
    "invalidDelegation" :>
        <<105, 110, 118, 97, 108, 105, 100, 68, 101, 108, 101, 103, 97, 116, 105, 111, 110>>

\* The bytes of a literal of the source.
Ascii(str) == AsciiOf[str]

\* The element of a one-element set.  A value that is used more than once
\* is computed once by binding it: The({ F(x) : x \in { value } }).
The(S) == CHOOSE x \in S : TRUE

\* Lexicographic order on text: the order of Rust's str, the key order of
\* serde_json's Map (a BTreeMap<String, Value>).
TextLess(a, b) ==
    \E i \in 1..Len(b) :
        /\ \A k \in 1..(i - 1) : k <= Len(a) /\ a[k] = b[k]
        /\ \/ i = Len(a) + 1
           \/ i <= Len(a) /\ a[i] < b[i]

\* The keys of a map in BTreeMap iteration order.
RECURSIVE SortedKeys(_)
SortedKeys(S) ==
    IF S = {} THEN <<>>
    ELSE LET m == CHOOSE x \in S : \A y \in S \ {x} : TextLess(x, y)
         IN  <<m>> \o SortedKeys(S \ {m})

-----------------------------------------------------------------------------
(* base64::engine::general_purpose::URL_SAFE_NO_PAD *)

\* The URL-safe alphabet: A-Z a-z 0-9 - _
B64Char(i) ==
    IF i < 26 THEN 65 + i
    ELSE IF i < 52 THEN 97 + (i - 26)
    ELSE IF i < 62 THEN 48 + (i - 52)
    ELSE IF i = 62 THEN 45
    ELSE 95

\* The 6-bit value of a character, or -1 when it is not in the alphabet
\* ('=' padding included: the engine is NO_PAD).
B64Value(c) ==
    IF c >= 65 /\ c <= 90 THEN c - 65
    ELSE IF c >= 97 /\ c <= 122 THEN c - 97 + 26
    ELSE IF c >= 48 /\ c <= 57 THEN c - 48 + 52
    ELSE IF c = 45 THEN 62
    ELSE IF c = 95 THEN 63
    ELSE -1

\* URL_SAFE_NO_PAD.encode: three bytes to four characters, the last group
\* cut short and not padded.
B64Encode(bytes) ==
    LET n == Len(bytes)
        r == n % 3
        outLen == (n \div 3) * 4 + (IF r = 0 THEN 0 ELSE r + 1)
        byte(i) == IF i <= n THEN bytes[i] ELSE 0
        sextet(k) ==
            LET g  == (k - 1) \div 4
                j  == (k - 1) % 4
                b1 == byte(3 * g + 1)
                b2 == byte(3 * g + 2)
                b3 == byte(3 * g + 3)
            IN  CASE j = 0 -> b1 \div 4
                  [] j = 1 -> (b1 % 4) * 16 + b2 \div 16
                  [] j = 2 -> (b2 % 16) * 4 + b3 \div 64
                  [] j = 3 -> b3 % 64
    IN  [k \in 1..outLen |-> B64Char(sextet(k))]

\* The bytes of well-formed base64 text.
B64DecodeBytes(chars) ==
    LET m == Len(chars)
        r == m % 4
        outLen == (m \div 4) * 3 + (IF r = 0 THEN 0 ELSE r - 1)
        val(i) == IF i <= m THEN B64Value(chars[i]) ELSE 0
        octet(k) ==
            LET g  == (k - 1) \div 3
                j  == (k - 1) % 3
                v1 == val(4 * g + 1)
                v2 == val(4 * g + 2)
                v3 == val(4 * g + 3)
                v4 == val(4 * g + 4)
            IN  CASE j = 0 -> v1 * 4 + v2 \div 16
                  [] j = 1 -> (v2 % 16) * 16 + v3 \div 4
                  [] j = 2 -> (v3 % 4) * 64 + v4
    IN  [k \in 1..outLen |-> octet(k)]

\* URL_SAFE_NO_PAD.decode: Err on a character outside the alphabet, on a
\* length of 1 modulo 4, and on non-zero trailing bits.
B64Decode(chars) ==
    LET n == Len(chars)
        r == n % 4 IN
    IF \E i \in 1..n : B64Value(chars[i]) < 0 THEN [ok |-> FALSE]
    ELSE IF r = 1 THEN [ok |-> FALSE]
    ELSE IF r = 2 /\ B64Value(chars[n]) % 16 # 0 THEN [ok |-> FALSE]
    ELSE IF r = 3 /\ B64Value(chars[n]) % 4 # 0 THEN [ok |-> FALSE]
    ELSE [ok |-> TRUE, bytes |-> B64DecodeBytes(chars)]

\* String::from_utf8: the model's text is ASCII, and a byte of 128 or more
\* stands for an invalid UTF-8 sequence.
FromUtf8(bytes) ==
    IF \E i \in 1..Len(bytes) : bytes[i] >= 128 THEN [ok |-> FALSE]
    ELSE [ok |-> TRUE, text |-> bytes]

-----------------------------------------------------------------------------
(* serde_json: Value::to_string and from_str *)

JNull      == [t |-> "null"]
JBool(b)   == [t |-> "bool", b |-> b]
JNum(n)    == [t |-> "num", n |-> n]
JStr(s)    == [t |-> "str", s |-> s]
JArr(a)    == [t |-> "arr", a |-> a]
JObj(o)    == [t |-> "obj", o |-> o]

\* The map with no entries (Map::new()).
EmptyMap == [k \in {} |-> JNull]

\* Map::insert: the value of an existing key is replaced.
MapInsert(m, k, v) ==
    [x \in (DOMAIN m) \cup {k} |-> IF x = k THEN v ELSE m[x]]

\* Map::remove: a key that is absent is left absent.
MapRemove(m, k) == [x \in (DOMAIN m) \ {k} |-> m[x]]

\* A string's characters as serde_json writes them: the quote, the
\* backslash and the line feed are escaped (the model's text holds no other
\* control character).
RECURSIVE EscapeRange(_, _, _)
EscapeRange(s, lo, hi) ==
    IF lo > hi THEN <<>>
    ELSE IF lo = hi THEN
        (IF s[lo] = 34 THEN <<92, 34>>
         ELSE IF s[lo] = 92 THEN <<92, 92>>
         ELSE IF s[lo] = 10 THEN <<92, 110>>
         ELSE <<s[lo]>>)
    ELSE LET mid == (lo + hi) \div 2 IN
         EscapeRange(s, lo, mid) \o EscapeRange(s, mid + 1, hi)

JsonString(s) == <<34>> \o EscapeRange(s, 1, Len(s)) \o <<34>>

RECURSIVE ToJson(_)
RECURSIVE ArrToJson(_, _)
RECURSIVE ObjToJson(_, _, _)
\* Value::to_string: compact, the keys of an object in the map's order.
ToJson(v) ==
    CASE v.t = "null" -> <<110, 117, 108, 108>>
      [] v.t = "bool" -> IF v.b THEN <<116, 114, 117, 101>>
                         ELSE <<102, 97, 108, 115, 101>>
      [] v.t = "num"  -> v.n
      [] v.t = "str"  -> JsonString(v.s)
      [] v.t = "arr"  -> <<91>> \o ArrToJson(v.a, 1) \o <<93>>
      [] v.t = "obj"  -> <<123>> \o ObjToJson(v.o, SortedKeys(DOMAIN v.o), 1) \o <<125>>

ArrToJson(a, i) ==
    IF i > Len(a) THEN <<>>
    ELSE (IF i > 1 THEN <<44>> ELSE <<>>) \o ToJson(a[i]) \o ArrToJson(a, i + 1)

ObjToJson(o, keys, i) ==
    IF i > Len(keys) THEN <<>>
    ELSE (IF i > 1 THEN <<44>> ELSE <<>>)
         \o JsonString(keys[i]) \o <<58>> \o ToJson(o[keys[i]])
         \o ObjToJson(o, keys, i + 1)

\* The parser's results: a failure, or a value and the index after it.
ParseErr == [ok |-> FALSE]
ParseOk(v, i) == [ok |-> TRUE, v |-> v, i |-> i]

IsWs(c) == c \in {32, 9, 10, 13}
IsDigit(c) == c >= 48 /\ c <= 57

\* The first index from i on that holds no white space (Len(s) + 1 at the end).
SkipWs(s, i) ==
    CHOOSE j \in i..(Len(s) + 1) :
        /\ j = Len(s) + 1 \/ ~IsWs(s[j])
        /\ \A k \in i..(j - 1) : IsWs(s[k])

\* Whether text s holds the word w at index i.
HasWord(s, i, w) ==
    /\ i + Len(w) - 1 <= Len(s)
    /\ \A k \in 1..Len(w) : s[i + k - 1] = w[k]

\* The first index from i on that holds no digit.
DigitsEnd(s, i) ==
    CHOOSE j \in i..(Len(s) + 1) :
        /\ j = Len(s) + 1 \/ ~IsDigit(s[j])
        /\ \A k \in i..(j - 1) : IsDigit(s[k])

\* A number: the model holds the unsigned integers.  A leading zero
\* followed by a digit is an error, as in JSON; a sign, a fraction or an
\* exponent is outside the model and is refused.
ParseNumber(s, i) ==
    LET e == DigitsEnd(s, i) IN
    IF s[i] = 48 /\ e > i + 1 THEN ParseErr
    ELSE IF e <= Len(s) /\ s[e] \in {46, 69, 101} THEN ParseErr
    ELSE ParseOk(JNum(SubSeq(s, i, e - 1)), e)

\* Whether the character at index j of a string that starts at index i is
\* escaped: an odd number of backslashes runs up to it.
Escaped(s, i, j) ==
    LET n   == CHOOSE k \in 0..(j - i) :
                  /\ \A m \in 1..k : s[j - m] = 92
                  /\ k = j - i \/ s[j - k - 1] # 92
    IN  n % 2 = 1

RECURSIVE UnescapeRange(_, _, _, _)
UnescapeRange(s, i, lo, hi) ==
    IF lo > hi THEN <<>>
    ELSE IF lo = hi THEN
        (IF Escaped(s, i, lo) THEN (IF s[lo] = 110 THEN <<10>> ELSE <<s[lo]>>)
         ELSE IF s[lo] = 92 THEN <<>>
         ELSE <<s[lo]>>)
    ELSE LET mid == (lo + hi) \div 2 IN
         UnescapeRange(s, i, lo, mid) \o UnescapeRange(s, i, mid + 1, hi)

\* The characters of a string from index i (after the opening quote) to
\* the closing quote, unescaped.  An escape other than \" \\ \/ \n is
\* outside the model and is refused, as is a raw control character.
ParseChars(s, i, acc) ==
    LET closes == { j \in i..Len(s) : s[j] = 34 /\ ~Escaped(s, i, j) } IN
    IF closes = {} THEN ParseErr
    ELSE LET close == CHOOSE j \in closes : \A k \in closes : j <= k IN
         IF \E j \in i..(close - 1) :
                \/ s[j] < 32
                \/ Escaped(s, i, j) /\ s[j] \notin {34, 92, 47, 110}
         THEN ParseErr
         ELSE ParseOk(acc \o UnescapeRange(s, i, i, close - 1), close + 1)

RECURSIVE ParseValue(_, _)
RECURSIVE ParseElems(_, _, _)
RECURSIVE ParseMembers(_, _, _)

\* The elements of an array from index i (after '[' or ',').
ParseElems(s, i, acc) ==
    LET r == ParseValue(s, SkipWs(s, i)) IN
    IF ~r.ok THEN ParseErr
    ELSE LET j == SkipWs(s, r.i) IN
         IF j > Len(s) THEN ParseErr
         ELSE IF s[j] = 44 THEN ParseElems(s, j + 1, Append(acc, r.v))
         ELSE IF s[j] = 93 THEN ParseOk(JArr(Append(acc, r.v)), j + 1)
         ELSE ParseErr

\* The members of an object from index i (after '{' or ','): a repeated
\* key keeps its last value (Map::insert).
ParseMembers(s, i, acc) ==
    LET j == SkipWs(s, i) IN
    IF j > Len(s) \/ s[j] # 34 THEN ParseErr
    ELSE LET k == ParseChars(s, j + 1, <<>>) IN
         IF ~k.ok THEN ParseErr
         ELSE LET c == SkipWs(s, k.i) IN
              IF c > Len(s) \/ s[c] # 58 THEN ParseErr
              ELSE LET r == ParseValue(s, SkipWs(s, c + 1)) IN
                   IF ~r.ok THEN ParseErr
                   ELSE LET e == SkipWs(s, r.i) IN
                        IF e > Len(s) THEN ParseErr
                        ELSE IF s[e] = 44
                             THEN ParseMembers(s, e + 1, MapInsert(acc, k.v, r.v))
                        ELSE IF s[e] = 125
                             THEN ParseOk(JObj(MapInsert(acc, k.v, r.v)), e + 1)
                        ELSE ParseErr

ParseValue(s, i) ==
    IF i > Len(s) THEN ParseErr
    ELSE IF s[i] = 110 THEN
        IF HasWord(s, i, <<110, 117, 108, 108>>) THEN ParseOk(JNull, i + 4) ELSE ParseErr
    ELSE IF s[i] = 116 THEN
        IF HasWord(s, i, <<116, 114, 117, 101>>) THEN ParseOk(JBool(TRUE), i + 4) ELSE ParseErr
    ELSE IF s[i] = 102 THEN
        IF HasWord(s, i, <<102, 97, 108, 115, 101>>) THEN ParseOk(JBool(FALSE), i + 5) ELSE ParseErr
    ELSE IF s[i] = 34 THEN
        LET r == ParseChars(s, i + 1, <<>>) IN
        IF r.ok THEN ParseOk(JStr(r.v), r.i) ELSE ParseErr
    ELSE IF IsDigit(s[i]) THEN ParseNumber(s, i)
    ELSE IF s[i] = 91 THEN
        LET j == SkipWs(s, i + 1) IN
        IF j <= Len(s) /\ s[j] = 93 THEN ParseOk(JArr(<<>>), j + 1)
        ELSE ParseElems(s, i + 1, <<>>)
    ELSE IF s[i] = 123 THEN
        LET j == SkipWs(s, i + 1) IN
        IF j <= Len(s) /\ s[j] = 125 THEN ParseOk(JObj(EmptyMap), j + 1)
        ELSE ParseMembers(s, i + 1, EmptyMap)
    ELSE ParseErr

\* serde_json::from_str::<Map<String, Value>>: the text must be one JSON
\* object, with nothing but white space around it.
FromStrMap(s) ==
    LET i == SkipWs(s, 1) IN
    IF i > Len(s) \/ s[i] # 123 THEN [ok |-> FALSE]
    ELSE LET r == ParseValue(s, i) IN
         IF ~r.ok THEN [ok |-> FALSE]
         ELSE IF SkipWs(s, r.i) <= Len(s) THEN [ok |-> FALSE]
         ELSE [ok |-> TRUE, map |-> r.v.o]

-----------------------------------------------------------------------------
(* Keys and signatures (ed25519_zebra, behind Ed25519KeyMaterial) *)

\* Ed25519KeyMaterial(public_key, Some(private_key)) of a named seed.
KeyMaterial(name) == [public |-> name, private |-> name]

\* One byte that tells the keys apart in a signature.
KeyByte(name) ==
    CASE name = "alice"   -> 65
      [] name = "bob"     -> 66
      [] name = "mallory" -> 77
      [] OTHER            -> 63

RECURSIVE PowMod(_, _, _)
\* b^k modulo m.
PowMod(b, k, m) ==
    IF k = 0 THEN 1
    ELSE LET h  == PowMod(b, k \div 2, m)
             sq == (h * h) % m
         IN  IF k % 2 = 1 THEN (sq * b) % m ELSE sq

RECURSIVE PolyRange(_, _, _, _, _)
\* The polynomial s[lo] b^(hi-lo) + ... + s[hi] modulo m.
PolyRange(s, lo, hi, b, m) ==
    IF lo > hi THEN 0
    ELSE IF lo = hi THEN s[lo] % m
    ELSE LET mid == (lo + hi) \div 2
         IN  (PolyRange(s, lo, mid, b, m) * PowMod(b, hi - mid, m)
              + PolyRange(s, mid + 1, hi, b, m)) % m

\* A fixed-length digest of bytes, the stand-in for SHA-512, SHA2-256 and
\* BLAKE3: eight bytes, from four polynomial hashes of the bytes and their
\* number. As with the real functions, equal bytes give equal digests and
\* the model meets no two different texts with the same digest.
Digest(bytes) ==
    LET h(b, m) == (PowMod(b, Len(bytes), m) + PolyRange(bytes, 1, Len(bytes), b, m)) % m
        h1 == h(257, 32749)
        h2 == h(263, 32719)
        h3 == h(269, 32717)
        h4 == h(271, 32713)
    IN  << h1 \div 256, h1 % 256, h2 \div 256, h2 % 256,
           h3 \div 256, h3 % 256, h4 \div 256, h4 % 256 >>

\* private_key.sign(data): Ed25519 is deterministic and its signature has a
\* fixed length.  The signature is modelled as the key's byte followed by
\* the digest of the signed bytes: no other key gives it, and no other
\* data of the model does.
Ed25519Sign(private, data) == <<KeyByte(private)>> \o Digest(data)

\* Whether raw signature sig verifies over data under a public key.
Ed25519Verify(public, data, sig) == sig = <<KeyByte(public)>> \o Digest(data)

-----------------------------------------------------------------------------
(* src/generators/mutate.rs *)

Returned(token) == [ok |-> TRUE, token |-> token]
Panicked(why)   == [ok |-> FALSE, panic |-> why]

\* token.split('.').collect(): the text between the dots.
Split(token) ==
    LET dots == { i \in 1..Len(token) : token[i] = 46 }
        n    == Cardinality(dots)
        dot(k) == IF k = 0 THEN 0
                  ELSE IF k > n THEN Len(token) + 1
                  ELSE CHOOSE d \in dots : Cardinality({ e \in dots : e < d }) = k - 1
    IN  [k \in 1..(n + 1) |-> SubSeq(token, dot(k - 1) + 1, dot(k) - 1)]

\* part_to_map recovering from an Err with an empty map (unwrap_or_default).
part_to_map_or_default(part) ==
    LET d == B64Decode(part) IN
    IF ~d.ok THEN [ok |-> TRUE, map |-> EmptyMap]
    ELSE LET u == FromUtf8(d.bytes) IN
         IF ~u.ok THEN [ok |-> TRUE, map |-> EmptyMap]
         ELSE LET m == FromStrMap(u.text) IN
              IF ~m.ok THEN [ok |-> TRUE, map |-> EmptyMap] ELSE m

\* part_to_map: each of its three unwraps panics on an Err.
part_to_map(part) ==
    LET d == B64Decode(part) IN
    IF ~d.ok THEN [ok |-> FALSE]
    ELSE LET u == FromUtf8(d.bytes) IN
         IF ~u.ok THEN [ok |-> FALSE]
         ELSE FromStrMap(u.text)

\* map_to_part with the padded engine (URL_SAFE): the text is filled with
\* '=' to a multiple of four characters.
map_to_part_padded(map) ==
    LET text == B64Encode(ToJson(JObj(map))) IN
    text \o [k \in 1..((4 - (Len(text) % 4)) % 4) |-> 61]

\* map_to_part
map_to_part(map) == B64Encode(ToJson(JObj(map)))

\* sign with the signature computed over the header alone.
sign_header_only(header, payload, signer) ==
    IF signer.private = "none" THEN Panicked("NoPrivateKey")
    ELSE LET raw_signature == Ed25519Sign(signer.private, header)
             signature     == B64Encode(raw_signature)
         IN  Returned(header \o <<46>> \o payload \o <<46>> \o signature)

\* sign: panics when the key material holds no private key.
sign(header, payload, signer) ==
    IF signer.private = "none" THEN Panicked("NoPrivateKey")
    ELSE LET data_to_sign  == header \o <<46>> \o payload
             raw_signature == Ed25519Sign(signer.private, data_to_sign)
             signature     == B64Encode(raw_signature)
         IN  Returned(header \o <<46>> \o payload \o <<46>> \o signature)

\* remove_field decoding and encoding the part it was not asked to touch.
remove_field_reencodes_both(token, part, field, signer) ==
    LET parts == Split(token)
        header_map  == part_to_map(parts[1])
        payload_map == part_to_map(parts[2])
    IN  IF part \notin {"header", "payload"} THEN Panicked("UnsupportedPart")
        ELSE IF ~header_map.ok \/ ~payload_map.ok THEN Panicked("DecodeError")
        ELSE IF part = "header"
             THEN sign(map_to_part(MapRemove(header_map.map, field)),
                       map_to_part(payload_map.map), signer)
             ELSE sign(map_to_part(header_map.map),
                       map_to_part(MapRemove(payload_map.map, field)), signer)

\* remove_field unwrapping the removed value (map.remove(field).unwrap()).
remove_field_strict(token, part, field, signer) ==
    LET parts == Split(token)
        named == part_to_map(parts[IF part = "header" THEN 1 ELSE 2])
    IN  IF part \notin {"header", "payload"} THEN Panicked("UnsupportedPart")
        ELSE IF ~named.ok THEN Panicked("DecodeError")
        ELSE IF field \notin DOMAIN named.map THEN Panicked("FieldNotFound")
        ELSE IF part = "header"
             THEN sign(map_to_part(MapRemove(named.map, field)), parts[2], signer)
             ELSE sign(parts[1], map_to_part(MapRemove(named.map, field)), signer)

\* remove_field signing the two parts of the token it was handed, not the
\* two parts it returns.
remove_field_signs_input(token, part, field, signer) ==
    LET parts == Split(token) IN
    CASE part = "header" ->
            LET header_map == part_to_map(parts[1]) IN
            IF ~header_map.ok THEN Panicked("DecodeError")
            ELSE IF Len(parts) < 2 THEN Panicked("IndexOutOfBounds")
            ELSE IF signer.private = "none" THEN Panicked("NoPrivateKey")
            ELSE Returned(map_to_part(MapRemove(header_map.map, field)) \o <<46>>
                     \o parts[2] \o <<46>>
                     \o B64Encode(Ed25519Sign(signer.private,
                                              parts[1] \o <<46>> \o parts[2])))
      [] part = "payload" ->
            IF Len(parts) < 2 THEN Panicked("IndexOutOfBounds")
            ELSE LET payload_map == part_to_map(parts[2]) IN
                 IF ~payload_map.ok THEN Panicked("DecodeError")
                 ELSE IF signer.private = "none" THEN Panicked("NoPrivateKey")
                 ELSE Returned(parts[1] \o <<46>>
                          \o map_to_part(MapRemove(payload_map.map, field)) \o <<46>>
                          \o B64Encode(Ed25519Sign(signer.private,
                                                   parts[1] \o <<46>> \o parts[2])))
      [] OTHER -> Panicked("UnsupportedPart")

\* remove_field
remove_field(token, part, field, signer) ==
    LET parts == Split(token) IN
    CASE part = "header" ->
            LET header_map == part_to_map(parts[1]) IN
            IF ~header_map.ok THEN Panicked("DecodeError")
            ELSE IF Len(parts) < 2 THEN Panicked("IndexOutOfBounds")
            ELSE sign(map_to_part(MapRemove(header_map.map, field)), parts[2], signer)
      [] part = "payload" ->
            IF Len(parts) < 2 THEN Panicked("IndexOutOfBounds")
            ELSE LET payload_map == part_to_map(parts[2]) IN
                 IF ~payload_map.ok THEN Panicked("DecodeError")
                 ELSE sign(parts[1], map_to_part(MapRemove(payload_map.map, field)), signer)
      [] OTHER -> Panicked("UnsupportedPart")

\* mutate_field writing with map.insert(field, value).
mutate_field_inserts(token, part, field, value, signer) ==
    LET parts == Split(token)
        named == part_to_map(parts[IF part = "header" THEN 1 ELSE 2])
    IN  IF part \notin {"header", "payload"} THEN Panicked("UnsupportedPart")
        ELSE IF ~named.ok THEN Panicked("DecodeError")
        ELSE IF part = "header"
             THEN sign(map_to_part(MapInsert(named.map, field, value)), parts[2], signer)
             ELSE sign(parts[1], map_to_part(MapInsert(named.map, field, value)), signer)

\* mutate_field with the payload arm as the match's default arm.
mutate_field_default_payload(token, part, field, value, signer) ==
    LET parts == Split(token)
        named == part_to_map(parts[IF part = "header" THEN 1 ELSE 2])
    IN  IF ~named.ok THEN Panicked("DecodeError")
        ELSE IF field \notin DOMAIN named.map THEN Panicked("FieldNotFound")
        ELSE IF part = "header"
             THEN sign(map_to_part([named.map EXCEPT ![field] = value]), parts[2], signer)
             ELSE sign(parts[1], map_to_part([named.map EXCEPT ![field] = value]), signer)

\* mutate_field that looks the field up and leaves its value as it was.
mutate_field_keeps_value(token, part, field, value, signer) ==
    LET parts == Split(token) IN
    CASE part = "header" ->
            LET header_map == part_to_map(parts[1]) IN
            IF ~header_map.ok THEN Panicked("DecodeError")
            ELSE IF field \notin DOMAIN header_map.map THEN Panicked("FieldNotFound")
            ELSE IF Len(parts) < 2 THEN Panicked("IndexOutOfBounds")
            ELSE sign(map_to_part(header_map.map), parts[2], signer)
      [] part = "payload" ->
            IF Len(parts) < 2 THEN Panicked("IndexOutOfBounds")
            ELSE LET payload_map == part_to_map(parts[2]) IN
                 IF ~payload_map.ok THEN Panicked("DecodeError")
                 ELSE IF field \notin DOMAIN payload_map.map THEN Panicked("FieldNotFound")
                 ELSE sign(parts[1], map_to_part(payload_map.map), signer)
      [] OTHER -> Panicked("UnsupportedPart")

\* mutate_field
mutate_field(token, part, field, value, signer) ==
    LET parts == Split(token) IN
    CASE part = "header" ->
            LET header_map == part_to_map(parts[1]) IN
            IF ~header_map.ok THEN Panicked("DecodeError")
            ELSE IF field \notin DOMAIN header_map.map THEN Panicked("FieldNotFound")
            ELSE IF Len(parts) < 2 THEN Panicked("IndexOutOfBounds")
            ELSE sign(map_to_part([header_map.map EXCEPT ![field] = value]),
                      parts[2], signer)
      [] part = "payload" ->
            IF Len(parts) < 2 THEN Panicked("IndexOutOfBounds")
            ELSE LET payload_map == part_to_map(parts[2]) IN
                 IF ~payload_map.ok THEN Panicked("DecodeError")
                 ELSE IF field \notin DOMAIN payload_map.map THEN Panicked("FieldNotFound")
                 ELSE sign(parts[1],
                           map_to_part([payload_map.map EXCEPT ![field] = value]),
                           signer)
      [] OTHER -> Panicked("UnsupportedPart")

-----------------------------------------------------------------------------
(* The ucan crate as the generators use it: Signable::sign, Ucan::encode, *)
(* Ucan::to_cid; and Identities::new *)

\* Signable::ucan_header: {alg, typ} of an Ed25519 key.
HeaderMap ==
    MapInsert(MapInsert(EmptyMap, Ascii("alg"), JStr(Ascii("EdDSA"))),
              Ascii("typ"), JStr(Ascii("JWT")))

None    == [some |-> FALSE]
Some(v) == [some |-> TRUE, v |-> v]

\* KeyMaterial::get_did of a seed key.
get_did(key) ==
    CASE key.public = "alice" ->
            Ascii("did:key:z6Mkk89bC3JrVqKie71YEcc5M1SMVxuCgNx6zLZ8SYJsxALi")
      [] key.public = "bob" ->
            Ascii("did:key:z6MkffDZCkCTWreg8868fG1FGFogcJj5X6PY93pPcWDn9bob")
      [] key.public = "mallory" ->
            Ascii("did:key:z6MktafZTREjJkvV5mfJxcLpNBoVPwDLhTuMg9ng7dY4zMAL")

\* Identities::new: the three keys decoded from their fixed seeds.
Identities_new ==
    [ alice_key   |-> KeyMaterial("alice"),
      bob_key     |-> KeyMaterial("bob"),
      mallory_key |-> KeyMaterial("mallory"),
      alice_did   |-> get_did(KeyMaterial("alice")),
      bob_did     |-> get_did(KeyMaterial("bob")),
      mallory_did |-> get_did(KeyMaterial("mallory")) ]

\* UcanOptions::default()
DefaultOptions ==
    [ capabilities |-> <<>>,
      expiration   |-> None,
      not_before   |-> None,
      facts        |-> EmptyMap,
      proofs       |-> <<>>,
      add_nonce    |-> FALSE ]

\* EMAIL_SEMANTICS.parse(resource, ability, caveat).unwrap().into(): a
\* capability; no caveat given is the empty caveat {}.
parse(resource, ability, caveat) ==
    [ resource |-> Ascii(resource),
      ability  |-> Ascii(ability),
      caveat   |-> IF caveat.some THEN caveat.v ELSE JObj(EmptyMap) ]

\* json!({"templates": [...]})
Templates(names) ==
    JObj(MapInsert(EmptyMap, Ascii("templates"),
                   JArr([i \in 1..Len(names) |-> JStr(Ascii(names[i]))])))

\* Capabilities::try_from(Vec<Capability>) as JSON: resource -> ability ->
\* the caveats, in the order given.
Capabilities(caps) ==
    LET resources == { caps[i].resource : i \in 1..Len(caps) }
        abilities(r) == { caps[i].ability : i \in { j \in 1..Len(caps) : caps[j].resource = r } }
        caveats(r, a) ==
            LET at == { j \in 1..Len(caps) : caps[j].resource = r /\ caps[j].ability = a }
                nth(k) == CHOOSE j \in at : Cardinality({ e \in at : e < j }) = k - 1
            IN  [k \in 1..Cardinality(at) |-> caps[nth(k)].caveat]
    IN  JObj([r \in resources |-> JObj([a \in abilities(r) |-> JArr(caveats(r, a))])])

\* A variant of ucan_payload that also records the nonce among the facts.
ucan_payload_nonce_in_facts(issuer, audience, options, nonce) ==
    [ ucv |-> Ascii("0.10.0-canary"),
      iss |-> get_did(issuer),
      aud |-> audience,
      exp |-> options.expiration,
      nbf |-> options.not_before,
      nnc |-> IF options.add_nonce THEN Some(nonce) ELSE None,
      cap |-> Capabilities(options.capabilities),
      fct |-> IF options.add_nonce
              THEN Some(MapInsert(options.facts, Ascii("nnc"), JStr(nonce)))
              ELSE IF DOMAIN options.facts = {} THEN None ELSE Some(options.facts),
      prf |-> IF options.proofs = <<>> THEN None ELSE Some(options.proofs) ]

\* Signable::ucan_payload: nnc, fct and prf are None when there is no nonce
\* request, no fact, no proof.
ucan_payload(issuer, audience, options, nonce) ==
    [ ucv |-> Ascii("0.10.0-canary"),
      iss |-> get_did(issuer),
      aud |-> audience,
      exp |-> options.expiration,
      nbf |-> options.not_before,
      nnc |-> IF options.add_nonce THEN Some(nonce) ELSE None,
      cap |-> Capabilities(options.capabilities),
      fct |-> IF DOMAIN options.facts = {} THEN None ELSE Some(options.facts),
      prf |-> IF options.proofs = <<>> THEN None ELSE Some(options.proofs) ]

\* The payload as the JSON object that is encoded: exp is written as null
\* when None; nbf, nnc, fct and prf are left out when None.
PayloadMap(payload) ==
    [k \in { Ascii("ucv"), Ascii("iss"), Ascii("aud"), Ascii("exp"), Ascii("cap") }
           \cup (IF payload.nbf.some THEN { Ascii("nbf") } ELSE {})
           \cup (IF payload.nnc.some THEN { Ascii("nnc") } ELSE {})
           \cup (IF payload.fct.some THEN { Ascii("fct") } ELSE {})
           \cup (IF payload.prf.some THEN { Ascii("prf") } ELSE {}) |->
        CASE k = Ascii("ucv") -> JStr(payload.ucv)
          [] k = Ascii("iss") -> JStr(payload.iss)
          [] k = Ascii("aud") -> JStr(payload.aud)
          [] k = Ascii("exp") -> IF payload.exp.some THEN JNum(payload.exp.v) ELSE JNull
          [] k = Ascii("cap") -> payload.cap
          [] k = Ascii("nbf") -> JNum(payload.nbf.v)
          [] k = Ascii("nnc") -> JStr(payload.nnc.v)
          [] k = Ascii("fct") -> JObj(payload.fct.v)
          [] k = Ascii("prf") -> JArr([i \in 1..Len(payload.prf.v) |-> JStr(payload.prf.v[i])])]

\* Base64Encode::jwt_base64_encode: canonical JSON (sorted keys), unpadded
\* base64url.
jwt_base64_encode(map) == B64Encode(ToJson(JObj(map)))

\* Signable::sign, when the signer succeeds: the Ucan.
Signable_sign(issuer, audience, options, nonce) ==
    The({ The({ [ header      |-> [alg |-> Ascii("EdDSA"), typ |-> Ascii("JWT")],
                  payload     |-> payload,
                  signed_data |-> signed_data,
                  signature   |-> Ed25519Sign(issuer.private, signed_data) ] :
                signed_data \in { jwt_base64_encode(HeaderMap) \o <<46>>
                                  \o jwt_base64_encode(PayloadMap(payload)) } }) :
          payload \in { ucan_payload(issuer, audience, options, nonce) } })

\* Ucan::encode
Ucan_encode(ucan) ==
    The({ u.signed_data \o <<46>> \o B64Encode(u.signature) : u \in { ucan } })

\* A digest as lower-case text, two letters a..p for a byte.
Letters(bytes) ==
    [k \in 1..(2 * Len(bytes)) |->
        LET byte == bytes[(k + 1) \div 2]
        IN  97 + (IF k % 2 = 1 THEN byte \div 16 ELSE byte % 16)]

\* Ucan::to_cid(hasher).to_string(): the hash, by the algorithm of the
\* code, of the encoded token, as a CIDv1 in base32 text. The text's prefix
\* is the one the code gives a raw CIDv1 (bafkrei: sha2-256, bafkr4i:
\* blake3); the two algorithms digest the same bytes differently.
Ucan_to_cid(ucan, code) ==
    Ascii(IF code = "Sha2_256" THEN "bafkrei" ELSE "bafkr4i")
    \o Letters(Digest(<<IF code = "Sha2_256" THEN 18 ELSE 30>> \o Ucan_encode(ucan)))

-----------------------------------------------------------------------------
(* make_proof, and the scenarios of the verify generator *)

\* What a scenario passes to make_proof.
Proof(issuer, audience, options) ==
    [ issuer |-> issuer, audience |-> audience, options |-> options ]

\* make_proof, when the signer succeeds: (cid, token), with the Ucan kept
\* for the record of what was signed.
make_proof(issuer, audience, options, nonce) ==
    The({ [ cid   |-> Ucan_to_cid(ucan, "Sha2_256"),
            token |-> Ucan_encode(ucan) ] :
          ucan \in { Signable_sign(issuer, audience, options, nonce) } })

\* The capabilities the scenarios build.
Email(resource, caveat) == parse(resource, "email/send", caveat)

\* BTreeMap::from([("challenge", json!("abcdef"))])
ChallengeFact == MapInsert(EmptyMap, Ascii("challenge"), JStr(Ascii("abcdef")))

\* A scenario of verify.rs: the make_proof calls it awaits, in order, then
\* its make_fixture call. Every scenario that makes proofs passes all their
\* cids as options.proofs and all (cid, token) pairs as the proofs input.
VerifyScenario(name, proofs, issuer, audience, options) ==
    [ name |-> name, proofs |-> proofs, issuer |-> issuer,
      audience |-> audience, options |-> options ]

not_expired ==
    VerifyScenario("UCAN has not expired", <<>>, "alice_key", "bob_did",
        [DefaultOptions EXCEPT !.expiration = Some(Ascii("9246211200"))])

active ==
    VerifyScenario("UCAN is ready to be used", <<>>, "alice_key", "bob_did",
        [DefaultOptions EXCEPT !.not_before = Some(Ascii("1"))])

same_time_bounds ==
    VerifyScenario("UCAN has same time bounds as proof",
        << Proof("alice_key", "bob_did",
                 [DefaultOptions EXCEPT !.not_before = Some(Ascii("1")),
                                        !.expiration = Some(Ascii("9246211200"))]) >>,
        "bob_key", "mallory_did",
        [DefaultOptions EXCEPT !.not_before = Some(Ascii("1")),
                               !.expiration = Some(Ascii("9246211200"))])

proof_expires_after ==
    VerifyScenario("UCAN expires before proof",
        << Proof("alice_key", "bob_did",
                 [DefaultOptions EXCEPT !.expiration = Some(Ascii("14069142000"))]) >>,
        "bob_key", "mallory_did",
        [DefaultOptions EXCEPT !.expiration = Some(Ascii("9246211200"))])

proof_active_before ==
    VerifyScenario("UCAN active after proof",
        << Proof("alice_key", "bob_did",
                 [DefaultOptions EXCEPT !.not_before = Some(Ascii("1"))]) >>,
        "bob_key", "mallory_did",
        [DefaultOptions EXCEPT !.not_before = Some(Ascii("2"))])

well_formed_capability ==
    VerifyScenario("UCAN has a well-formed capability", <<>>, "alice_key", "bob_did",
        [DefaultOptions EXCEPT !.capabilities =
            << Email("mailto:alice@email.com", None) >>])

well_formed_capability_with_caveat ==
    VerifyScenario("UCAN has a well-formed capability with a caveat", <<>>,
        "alice_key", "bob_did",
        [DefaultOptions EXCEPT !.capabilities =
            << Email("mailto:alice@email.com", Some(Templates(<<"marketing">>))) >>])

multiple_well_formed_capabilities ==
    VerifyScenario("UCAN has multiple well-formed capabilities", <<>>,
        "alice_key", "bob_did",
        [DefaultOptions EXCEPT !.capabilities =
            << Email("mailto:alice@email.com", None),
               Email("mailto:marketing@email.com", Some(Templates(<<"marketing">>))) >>])

issuer_matches_proof_audience ==
    VerifyScenario("UCAN issuer matches proof audience",
        << Proof("alice_key", "bob_did", DefaultOptions) >>,
        "bob_key", "mallory_did", DefaultOptions)

has_delegated_capability ==
    VerifyScenario("UCAN has a delegated capability",
        << Proof("alice_key", "bob_did",
                 [DefaultOptions EXCEPT !.capabilities =
                     << Email("mailto:alice@email.com", None) >>]) >>,
        "bob_key", "mallory_did",
        [DefaultOptions EXCEPT !.capabilities =
            << Email("mailto:alice@email.com", None) >>])

merges_delegated_capabilities ==
    VerifyScenario("UCAN merges delegated capabilities",
        << Proof("alice_key", "bob_did",
                 [DefaultOptions EXCEPT !.capabilities =
                     << Email("mailto:alice@email.com", None) >>]),
           Proof("alice_key", "bob_did",
                 [DefaultOptions EXCEPT !.capabilities =
                     << Email("mailto:marketing@email.com", None) >>]) >>,
        "bob_key", "mallory_did",
        [DefaultOptions EXCEPT !.capabilities =
            << Email("mailto:alice@email.com", None),
               Email("mailto:marketing@email.com", None) >>])

caveats_equal ==
    VerifyScenario("UCAN capability caveats equal to proof caveats",
        << Proof("alice_key", "bob_did",
                 [DefaultOptions EXCEPT !.capabilities =
                     << Email("mailto:alice@email.com", Some(Templates(<<"newsletter">>))) >>]) >>,
        "bob_key", "mallory_did",
        [DefaultOptions EXCEPT !.capabilities =
            << Email("mailto:alice@email.com", Some(Templates(<<"newsletter">>))) >>])

\* A variant of caveats_attenuate that hands the reduced caveat to the
\* proof and the full caveat to the delegate.
caveats_attenuate_swapped ==
    VerifyScenario("UCAN capability attenuates existing caveats",
        << Proof("alice_key", "bob_did",
                 [DefaultOptions EXCEPT !.capabilities =
                     << Email("mailto:marketing@email.com",
                              Some(Templates(<<"newsletter">>))) >>]) >>,
        "bob_key", "mallory_did",
        [DefaultOptions EXCEPT !.capabilities =
            << Email("mailto:marketing@email.com",
                     Some(Templates(<<"newsletter", "marketing">>))) >>])

caveats_attenuate ==
    VerifyScenario("UCAN capability attenuates existing caveats",
        << Proof("alice_key", "bob_did",
                 [DefaultOptions EXCEPT !.capabilities =
                     << Email("mailto:marketing@email.com",
                              Some(Templates(<<"newsletter", "marketing">>))) >>]) >>,
        "bob_key", "mallory_did",
        [DefaultOptions EXCEPT !.capabilities =
            << Email("mailto:marketing@email.com", Some(Templates(<<"newsletter">>))) >>])

caveats_attenuate_from_no_caveats ==
    VerifyScenario("UCAN capability attenuates from no caveats",
        << Proof("alice_key", "bob_did",
                 [DefaultOptions EXCEPT !.capabilities =
                     << Email("mailto:marketing@email.com", None) >>]) >>,
        "bob_key", "mallory_did",
        [DefaultOptions EXCEPT !.capabilities =
            << Email("mailto:marketing@email.com", Some(Templates(<<"newsletter">>))) >>])

verify_has_fact ==
    VerifyScenario("UCAN has a fact", <<>>, "alice_key", "bob_did",
        [DefaultOptions EXCEPT !.facts = ChallengeFact])

\* verify::generate: the scenarios in the order they are awaited.
verify_generate ==
    << not_expired, active, same_time_bounds, proof_expires_after,
       proof_active_before,
       well_formed_capability, well_formed_capability_with_caveat,
       multiple_well_formed_capabilities,
       issuer_matches_proof_audience, has_delegated_capability,
       merges_delegated_capabilities, caveats_equal, caveats_attenuate,
       caveats_attenuate_from_no_caveats,
       verify_has_fact >>

\* A variant of a scenario that lists the cids of its proofs last made first.
WithProofs_last_first(options, proofs) ==
    IF proofs = <<>> THEN options
    ELSE [options EXCEPT !.proofs =
             [i \in 1..Len(proofs) |-> proofs[Len(proofs) + 1 - i].cid]]

\* options, with the cids of the proofs made as its proofs.
WithProofs(options, proofs) ==
    IF proofs = <<>> THEN options
    ELSE [options EXCEPT !.proofs = [i \in 1..Len(proofs) |-> proofs[i].cid]]

\* A variant of a scenario that passes HashMap::new() for the proofs it made.
ProofMap_new(proofs) == [c \in {} |-> <<>>]

\* HashMap::from([(cid, token), ...]) / HashMap::new()
ProofMap(proofs) ==
    [c \in { proofs[i].cid : i \in 1..Len(proofs) } |->
        proofs[CHOOSE i \in 1..Len(proofs) :
                  proofs[i].cid = c /\ \A j \in (i+1)..Len(proofs) : proofs[j].cid # c].token]

\* ucan_to_assertions (assertions.rs)
ucan_to_assertions(ucan) ==
    [ header  |-> [ alg |-> Some(ucan.header.alg), typ |-> Some(Ascii("JWT")) ],
      payload |-> [ ucv |-> Some(ucan.payload.ucv),
                    iss |-> Some(ucan.payload.iss),
                    aud |-> Some(ucan.payload.aud),
                    exp |-> ucan.payload.exp,
                    nbf |-> ucan.payload.nbf,
                    nnc |-> ucan.payload.nnc,
                    cap |-> Some(ucan.payload.cap),
                    fct |-> ucan.payload.fct,
                    prf |-> ucan.payload.prf ],
      signature |-> ucan.signature ]

\* verify.rs make_fixture, when the signer succeeds.
verify_make_fixture(name, issuer, audience, options, proofs, nonce) ==
    The({ [ name       |-> name,
            task       |-> "verify",
            inputs     |-> [ token |-> Ucan_encode(ucan), proofs |-> proofs ],
            assertions |-> ucan_to_assertions(ucan) ] :
          ucan \in { Signable_sign(issuer, audience, options, nonce) } })

-----------------------------------------------------------------------------
(* The scenarios of the refute generator *)

\* What a scenario does to its fixture after make_fixture: the assertion it
\* sets to None (exp: to the marker Some(86)), and the call that replaces
\* inputs.token.
AssertNone(part, field) == [ part |-> part, field |-> field, to |-> None ]
ExpMarker == [ part |-> "payload", field |-> "exp", to |-> Some(Ascii("86")) ]
NoEdit    == [ part |-> "none", field |-> "", to |-> None ]

Remove(part, field, signer) ==
    [ op |-> "remove_field", part |-> part, field |-> field,
      value |-> JNull, signer |-> signer ]
Mutate(part, field, value, signer) ==
    [ op |-> "mutate_field", part |-> part, field |-> field,
      value |-> value, signer |-> signer ]
NoTamper ==
    [ op |-> "none", part |-> "", field |-> "", value |-> JNull, signer |-> "" ]

RefuteScenario(name, proofs, issuer, audience, options, errors, edit, tamper) ==
    [ name |-> name, proofs |-> proofs, issuer |-> issuer,
      audience |-> audience, options |-> options, errors |-> errors,
      edit |-> edit, tamper |-> tamper ]

\* capabilities: vec![send_email_as_alice], no caveat
AliceSendsEmail ==
    [DefaultOptions EXCEPT !.capabilities = << Email("mailto:alice@email.com", None) >>]

\* capabilities: vec![send_email_as_alice] under the newsletter caveat
AliceSendsNewsletter ==
    [DefaultOptions EXCEPT !.capabilities =
        << Email("mailto:alice@email.com", Some(Templates(<<"newsletter">>))) >>]

expired ==
    RefuteScenario("UCAN has expired", <<>>, "alice_key", "bob_did",
        [DefaultOptions EXCEPT !.expiration = Some(Ascii("1"))],
        <<"expired">>, NoEdit, NoTamper)

not_ready ==
    RefuteScenario("UCAN is not ready to be used", <<>>, "alice_key", "bob_did",
        [DefaultOptions EXCEPT !.not_before = Some(Ascii("9246211200"))],
        <<"notReady">>, NoEdit, NoTamper)

\* A variant of expires_after_proofs whose delegate expires with its proof.
expires_after_proofs_with_proof ==
    RefuteScenario("UCAN expires after proofs",
        << Proof("alice_key", "bob_did",
                 [DefaultOptions EXCEPT !.expiration = Some(Ascii("9246211200"))]) >>,
        "alice_key", "bob_did",
        [DefaultOptions EXCEPT !.expiration = Some(Ascii("9246211200"))],
        <<"timeBoundsViolation">>, NoEdit, NoTamper)

expires_after_proofs ==
    RefuteScenario("UCAN expires after proofs",
        << Proof("alice_key", "bob_did",
                 [DefaultOptions EXCEPT !.expiration = Some(Ascii("9246211200"))]) >>,
        "alice_key", "bob_did",
        [DefaultOptions EXCEPT !.expiration = Some(Ascii("14069142000"))],
        <<"timeBoundsViolation">>, NoEdit, NoTamper)

ready_before_proofs ==
    RefuteScenario("UCAN ready before proofs",
        << Proof("alice_key", "bob_did",
                 [DefaultOptions EXCEPT !.not_before = Some(Ascii("2"))]) >>,
        "alice_key", "bob_did",
        [DefaultOptions EXCEPT !.not_before = Some(Ascii("1"))],
        <<"timeBoundsViolation">>, NoEdit, NoTamper)

missing_type ==
    RefuteScenario("UCAN header is missing typ field", <<>>,
        "alice_key", "bob_did",
        DefaultOptions,
        <<"missingField">>,
        AssertNone("header", "typ"),
        Remove("header", "typ", "alice_key"))

\* A variant of missing_algorithm whose remove_field call names typ.
missing_algorithm_removes_typ ==
    RefuteScenario("UCAN header is missing alg field", <<>>,
        "alice_key", "bob_did",
        DefaultOptions,
        <<"missingField">>,
        AssertNone("header", "alg"),
        Remove("header", "typ", "alice_key"))

missing_algorithm ==
    RefuteScenario("UCAN header is missing alg field", <<>>,
        "alice_key", "bob_did",
        DefaultOptions,
        <<"missingField">>,
        AssertNone("header", "alg"),
        Remove("header", "alg", "alice_key"))

missing_version ==
    RefuteScenario("UCAN payload is missing ucv field", <<>>,
        "alice_key", "bob_did",
        DefaultOptions,
        <<"missingField">>,
        AssertNone("payload", "ucv"),
        Remove("payload", "ucv", "alice_key"))

missing_issuer ==
    RefuteScenario("UCAN payload is missing iss field", <<>>,
        "alice_key", "bob_did",
        DefaultOptions,
        <<"missingField">>,
        AssertNone("payload", "iss"),
        Remove("payload", "iss", "alice_key"))

missing_audience ==
    RefuteScenario("UCAN payload is missing aud field", <<>>,
        "alice_key", "bob_did",
        DefaultOptions,
        <<"missingField">>,
        AssertNone("payload", "aud"),
        Remove("payload", "aud", "alice_key"))

missing_expiration ==
    RefuteScenario("UCAN payload is missing exp field", <<>>,
        "alice_key", "bob_did",
        DefaultOptions,
        <<"missingField">>,
        ExpMarker,
        Remove("payload", "exp", "alice_key"))

missing_capabilities ==
    RefuteScenario("UCAN payload is missing cap field", <<>>,
        "alice_key", "bob_did",
        DefaultOptions,
        <<"missingField">>,
        AssertNone("payload", "cap"),
        Remove("payload", "cap", "alice_key"))

invalid_algorithm ==
    RefuteScenario("UCAN header alg field is not a string", <<>>,
        "alice_key", "bob_did",
        DefaultOptions,
        <<"incorrectType">>,
        AssertNone("header", "alg"),
        Mutate("header", "alg", JNum(Ascii("1")), "alice_key"))

invalid_type ==
    RefuteScenario("UCAN header typ field is not a string", <<>>,
        "alice_key", "bob_did",
        DefaultOptions,
        <<"incorrectType">>,
        AssertNone("header", "typ"),
        Mutate("header", "typ", JNum(Ascii("1")), "alice_key"))

invalid_type_not_jwt ==
    RefuteScenario("UCAN type is not JWT", <<>>,
        "alice_key", "bob_did",
        DefaultOptions,
        <<"incorrectType">>,
        AssertNone("header", "typ"),
        Mutate("header", "typ", JStr(Ascii("NOT_JWT")), "alice_key"))

invalid_version ==
    RefuteScenario("UCAN payload ucv field is not a string", <<>>,
        "alice_key", "bob_did",
        DefaultOptions,
        <<"incorrectType">>,
        AssertNone("payload", "ucv"),
        Mutate("payload", "ucv", JNum(Ascii("1")), "alice_key"))

invalid_version_not_semantic ==
    RefuteScenario("UCAN payload ucv field is not semantically versioned", <<>>,
        "alice_key", "bob_did",
        DefaultOptions,
        <<"incorrectType">>,
        AssertNone("payload", "ucv"),
        Mutate("payload", "ucv", JStr(Ascii("0.10")), "alice_key"))

invalid_issuer ==
    RefuteScenario("UCAN payload iss field is not a DID", <<>>,
        "alice_key", "bob_did",
        DefaultOptions,
        <<"incorrectType">>,
        AssertNone("payload", "iss"),
        Mutate("payload", "iss",
               JStr(Ascii("z6Mkk89bC3JrVqKie71YEcc5M1SMVxuCgNx6zLZ8SYJsxALi")), "alice_key"))

invalid_audience ==
    RefuteScenario("UCAN payload aud field is not a DID", <<>>,
        "alice_key", "bob_did",
        DefaultOptions,
        <<"incorrectType">>,
        AssertNone("payload", "aud"),
        Mutate("payload", "aud",
               JStr(Ascii("z6MkffDZCkCTWreg8868fG1FGFogcJj5X6PY93pPcWDn9bob")), "alice_key"))

invalid_not_before ==
    RefuteScenario("UCAN payload nbf field is not a number", <<>>,
        "alice_key", "bob_did",
        [DefaultOptions EXCEPT !.not_before = Some(Ascii("1"))],
        <<"incorrectType">>,
        AssertNone("payload", "nbf"),
        Mutate("payload", "nbf", JStr(Ascii("1")), "alice_key"))

invalid_expiration ==
    RefuteScenario("UCAN payload exp field is not a number", <<>>,
        "alice_key", "bob_did",
        [DefaultOptions EXCEPT !.expiration = Some(Ascii("9246211200"))],
        <<"incorrectType">>,
        ExpMarker,
        Mutate("payload", "exp", JStr(Ascii("9246211200")), "alice_key"))

invalid_nonce ==
    RefuteScenario("UCAN payload nnc field is not a string", <<>>,
        "alice_key", "bob_did",
        [DefaultOptions EXCEPT !.add_nonce = TRUE],
        <<"incorrectType">>,
        AssertNone("payload", "nnc"),
        Mutate("payload", "nnc", JNum(Ascii("1")), "alice_key"))

invalid_facts ==
    RefuteScenario("UCAN payload fct field is not a JSON object", <<>>,
        "alice_key", "bob_did",
        [DefaultOptions EXCEPT !.facts = ChallengeFact],
        <<"incorrectType">>,
        AssertNone("payload", "fct"),
        Mutate("payload", "fct", JNull, "alice_key"))

invalid_capabilities ==
    RefuteScenario("UCAN payload cap field is not a JSON object", <<>>,
        "alice_key", "bob_did",
        AliceSendsEmail,
        <<"incorrectType">>,
        AssertNone("payload", "cap"),
        Mutate("payload", "cap", JNull, "alice_key"))

invalid_capabilities_ability ==
    RefuteScenario("UCAN payload cap field ability for resource is not a JSON object", <<>>,
        "alice_key", "bob_did",
        AliceSendsEmail,
        <<"incorrectType">>,
        AssertNone("payload", "cap"),
        Mutate("payload", "cap",
               JObj(MapInsert(EmptyMap, Ascii("mailto:alice@email.com"), JNull)), "alice_key"))

invalid_capabilities_caveats ==
    RefuteScenario("UCAN payload cap field caveat is not an array", <<>>,
        "alice_key", "bob_did",
        AliceSendsEmail,
        <<"incorrectType">>,
        AssertNone("payload", "cap"),
        Mutate("payload", "cap",
               JObj(MapInsert(EmptyMap, Ascii("mailto:alice@email.com"),
                    JObj(MapInsert(EmptyMap, Ascii("email/send"), JNull)))), "alice_key"))

invalid_capabilities_caveats_empty ==
    RefuteScenario("UCAN payload cap field caveat is an empty array", <<>>,
        "alice_key", "bob_did",
        AliceSendsEmail,
        <<"incorrectType">>,
        AssertNone("payload", "cap"),
        Mutate("payload", "cap",
               JObj(MapInsert(EmptyMap, Ascii("mailto:alice@email.com"),
                    JObj(MapInsert(EmptyMap, Ascii("email/send"), JArr(<<>>))))), "alice_key"))

invalid_proofs ==
    RefuteScenario("UCAN payload prf field is not an array", <<>>,
        "alice_key", "bob_did",
        [DefaultOptions EXCEPT !.proofs = << Ascii("placeholder") >>],
        <<"incorrectType">>,
        AssertNone("payload", "prf"),
        Mutate("payload", "prf", JObj(EmptyMap), "alice_key"))

invalid_proof_cids ==
    RefuteScenario("UCAN payload prf field is not an array of CIDs", <<>>,
        "alice_key", "bob_did",
        [DefaultOptions EXCEPT !.proofs = << Ascii("placeholder") >>],
        <<"incorrectProofs">>,
        AssertNone("payload", "prf"),
        Mutate("payload", "prf",
               JArr(<< JStr(Ascii("we")), JStr(Ascii("prove")), JStr(Ascii("nothing")) >>), "alice_key"))

issuer_does_not_match_proof_audience ==
    RefuteScenario("UCAN issuer does not match proof audience",
        << Proof("alice_key", "bob_did", DefaultOptions) >>,
        "bob_key", "mallory_did", DefaultOptions,
        <<"invalidDelegation">>,
        AssertNone("payload", "iss"),
        Mutate("payload", "iss",
               JStr(Ascii("did:key:z6MktafZTREjJkvV5mfJxcLpNBoVPwDLhTuMg9ng7dY4zMAL")),
               "alice_key"))

claimed_capability_not_delegated ==
    RefuteScenario("UCAN claims a capability that has not been delegated",
        << Proof("alice_key", "bob_did", DefaultOptions) >>,
        "bob_key", "mallory_did", AliceSendsEmail,
        <<"invalidDelegation">>, AssertNone("payload", "cap"), NoTamper)

\* A variant of caveats_escalate_with_new_caveat whose delegate claims the
\* caveat of the proof.
caveats_escalate_with_new_caveat_same_caveat ==
    RefuteScenario("UCAN escalates by adding a new caveat",
        << Proof("alice_key", "bob_did", AliceSendsNewsletter) >>,
        "bob_key", "mallory_did",
        [DefaultOptions EXCEPT !.capabilities =
            << Email("mailto:alice@email.com",
                     Some(Templates(<<"newsletter">>))) >>],
        <<"invalidDelegation">>, AssertNone("payload", "cap"), NoTamper)

caveats_escalate_with_new_caveat ==
    RefuteScenario("UCAN escalates by adding a new caveat",
        << Proof("alice_key", "bob_did", AliceSendsNewsletter) >>,
        "bob_key", "mallory_did",
        [DefaultOptions EXCEPT !.capabilities =
            << Email("mailto:alice@email.com",
                     Some(Templates(<<"newsletter", "marketing">>))) >>],
        <<"invalidDelegation">>, AssertNone("payload", "cap"), NoTamper)

caveats_escalate_to_no_caveats ==
    RefuteScenario("UCAN escalates to no caveats",
        << Proof("alice_key", "bob_did", AliceSendsNewsletter) >>,
        "bob_key", "mallory_did", AliceSendsEmail,
        <<"invalidDelegation">>, AssertNone("payload", "cap"), NoTamper)

caveats_escalate_with_different_caveat ==
    RefuteScenario("UCAN escalates by adding a different caveat",
        << Proof("alice_key", "bob_did", AliceSendsNewsletter) >>,
        "bob_key", "mallory_did",
        [DefaultOptions EXCEPT !.capabilities =
            << Email("mailto:alice@email.com", Some(Templates(<<"marketing">>))) >>],
        <<"invalidDelegation">>, AssertNone("payload", "cap"), NoTamper)

\* refute::generate: the scenarios in the order they are awaited.
refute_generate ==
    << expired, not_ready, expires_after_proofs, ready_before_proofs,
       missing_type, missing_algorithm, missing_version, missing_issuer,
       missing_audience, missing_expiration, missing_capabilities,
       invalid_algorithm, invalid_type, invalid_type_not_jwt, invalid_version,
       invalid_version_not_semantic, invalid_issuer, invalid_audience,
       invalid_not_before, invalid_expiration, invalid_nonce, invalid_facts,
       invalid_capabilities, invalid_capabilities_ability,
       invalid_capabilities_caveats, invalid_capabilities_caveats_empty,
       invalid_proofs, invalid_proof_cids,
       issuer_does_not_match_proof_audience, claimed_capability_not_delegated,
       caveats_escalate_with_new_caveat, caveats_escalate_to_no_caveats,
       caveats_escalate_with_different_caveat >>

\* A variant of refute.rs make_fixture that drops the errors it is given.
refute_make_fixture_without_errors(name, issuer, audience, options, proofs, errors, nonce) ==
    The({ [ name       |-> name,
            task       |-> "refute",
            inputs     |-> [ token |-> Ucan_encode(ucan), proofs |-> proofs ],
            assertions |-> ucan_to_assertions(ucan),
            errors     |-> <<>> ] :
          ucan \in { Signable_sign(issuer, audience, options, nonce) } })

\* A variant of refute.rs make_fixture whose Signable leaves expiration out.
refute_make_fixture_without_expiration(name, issuer, audience, options, proofs, errors, nonce) ==
    The({ [ name       |-> name,
            task       |-> "refute",
            inputs     |-> [ token |-> Ucan_encode(ucan), proofs |-> proofs ],
            assertions |-> ucan_to_assertions(ucan),
            errors     |-> errors ] :
          ucan \in { Signable_sign(issuer, audience,
                                   [options EXCEPT !.expiration = None], nonce) } })

\* refute.rs make_fixture, when the signer succeeds.
refute_make_fixture(name, issuer, audience, options, proofs, errors, nonce) ==
    The({ [ name       |-> name,
            task       |-> "refute",
            inputs     |-> [ token |-> Ucan_encode(ucan), proofs |-> proofs ],
            assertions |-> ucan_to_assertions(ucan),
            errors     |-> errors ] :
          ucan \in { Signable_sign(issuer, audience, options, nonce) } })

\* A variant of a scenario without its `*fixture.assertions..._mut() = ..`
\* line: the assertions stay as ucan_to_assertions made them.
SetAssertion_forgotten(assertions, edit) == assertions

\* *fixture.assertions.<part>.<field>_mut() = None (exp: Some(86))
SetAssertion(assertions, edit) ==
    CASE edit.part = "header" ->
            [assertions EXCEPT !.header =
                [f \in DOMAIN assertions.header |->
                    IF f = edit.field THEN edit.to ELSE assertions.header[f]]]
      [] edit.part = "payload" ->
            [assertions EXCEPT !.payload =
                [f \in DOMAIN assertions.payload |->
                    IF f = edit.field THEN edit.to ELSE assertions.payload[f]]]
      [] OTHER -> assertions

\* *fixture.inputs.token_mut() = remove_field(..) / mutate_field(..)
Tamper(token, tamper, ids) ==
    CASE tamper.op = "remove_field" ->
            remove_field(token, tamper.part, Ascii(tamper.field),
                         ids[tamper.signer])
      [] tamper.op = "mutate_field" ->
            mutate_field(token, tamper.part, Ascii(tamper.field), tamper.value,
                         ids[tamper.signer])
      [] OTHER -> Returned(token)

-----------------------------------------------------------------------------
(* The scenarios of the build and toCID generators *)

\* identities.rs: the seed of alice's key, as the build fixtures quote it.
ALICE_BASE64_KEY ==
    Ascii("U+bzp2GaFQHso587iSFWPSeCzbSfn/CbNHEz7ilKRZ1UQMmMS7qq4UhTzKn3X9Nj/4xgrwa+UqhMOeo4Ki8JUw==")

BuildScenario(name, issuer, issuer_base64_key, signature_scheme, audience, options) ==
    [ name |-> name, proofs |-> <<>>, issuer |-> issuer,
      issuer_base64_key |-> issuer_base64_key,
      signature_scheme |-> signature_scheme,
      audience |-> audience, options |-> options ]

has_expiration ==
    BuildScenario("UCAN has an expiration", "alice_key",
        ALICE_BASE64_KEY, Ascii("Ed25519"), "bob_did",
        [DefaultOptions EXCEPT !.expiration = Some(Ascii("9246211200"))])

has_not_before ==
    BuildScenario("UCAN has a not before", "alice_key",
        ALICE_BASE64_KEY, Ascii("Ed25519"), "bob_did",
        [DefaultOptions EXCEPT !.not_before = Some(Ascii("1"))])

send_email_as_alice ==
    BuildScenario("UCAN delegates send email capability", "alice_key",
        ALICE_BASE64_KEY, Ascii("Ed25519"), "bob_did",
        AliceSendsEmail)

send_newsletter_as_alice ==
    BuildScenario("UCAN delegates send email capability with newsletter template caveat",
        "alice_key", ALICE_BASE64_KEY, Ascii("Ed25519"), "bob_did",
        AliceSendsNewsletter)

build_has_fact ==
    BuildScenario("UCAN has a fact with a challenge", "alice_key",
        ALICE_BASE64_KEY, Ascii("Ed25519"), "bob_did",
        [DefaultOptions EXCEPT !.facts = ChallengeFact])

\* build::generate: the scenarios in the order they are awaited.
build_generate ==
    << has_expiration, has_not_before, send_email_as_alice,
       send_newsletter_as_alice, build_has_fact >>

\* build.rs make_fixture, when the signer succeeds.
build_make_fixture(name, issuer, issuer_base64_key, signature_scheme, audience, options, nonce) ==
    The({ [ name    |-> name,
            task    |-> "build",
            inputs  |-> [ version           |-> ucan.payload.ucv,
                          issuer_base64_key |-> issuer_base64_key,
                          signature_scheme  |-> signature_scheme,
                          audience          |-> audience,
                          not_before        |-> ucan.payload.nbf,
                          expiration        |-> ucan.payload.exp,
                          facts             |-> ucan.payload.fct,
                          capabilities      |-> ucan.payload.cap ],
            outputs |-> [ token |-> Ucan_encode(ucan) ] ] :
          ucan \in { Signable_sign(issuer, audience, options, nonce) } })

CidScenario(name, issuer, audience, hasher, options) ==
    [ name |-> name, proofs |-> <<>>, issuer |-> issuer, audience |-> audience,
      hasher |-> hasher, options |-> options ]

computes_cid_with_sha2_256_hasher ==
    CidScenario("Compute CID for token using SHA2-256 hasher",
        "alice_key", "bob_did", "SHA2-256", DefaultOptions)

computes_cid_with_blake3_256_hasher ==
    CidScenario("Compute CID for token using BLAKE3-256 hasher",
        "alice_key", "bob_did", "BLAKE3-256", DefaultOptions)

\* to_cid::generate: the scenarios in the order they are awaited.
to_cid_generate ==
    << computes_cid_with_sha2_256_hasher, computes_cid_with_blake3_256_hasher >>

\* A variant of hasher_code whose match lost its BLAKE3-256 arm.
hasher_code_sha2_only(hasher) == "Sha2_256"

\* match hasher.as_str(): the multihash code of a hasher label.
hasher_code(hasher) ==
    CASE hasher = "SHA2-256"   -> "Sha2_256"
      [] hasher = "BLAKE3-256" -> "Blake3_256"
      [] OTHER                 -> "Sha2_256"

\* to_cid.rs make_fixture, when the signer succeeds.
to_cid_make_fixture(name, issuer, audience, hasher, options, nonce) ==
    The({ [ name    |-> name,
            task    |-> "toCID",
            inputs  |-> [ token |-> Ucan_encode(ucan), hasher |-> hasher ],
            outputs |-> [ cid |-> Ucan_to_cid(ucan, hasher_code(hasher)) ] ] :
          ucan \in { Signable_sign(issuer, audience, options, nonce) } })

-----------------------------------------------------------------------------
(* serde: the JSON of a fixture *)

\* An object of the given fields; a field whose Option is None is skipped
\* (skip_serializing_if).
Object(fields) ==
    LET kept == { i \in 1..Len(fields) : fields[i][2].some }
    IN  JObj([k \in { Ascii(fields[i][1]) : i \in kept } |->
                fields[CHOOSE i \in kept : Ascii(fields[i][1]) = k][2].v])

OptText(o)   == IF o.some THEN Some(JStr(o.v)) ELSE None
OptNumber(o) == IF o.some THEN Some(JNum(o.v)) ELSE None
OptFacts(o)  == IF o.some THEN Some(JObj(o.v)) ELSE None
Texts(seq)   == JArr([i \in 1..Len(seq) |-> JStr(seq[i])])

\* An Option<u64> that is not skipped: None is written as null.
Nullable(o)  == Some(IF o.some THEN JNum(o.v) ELSE JNull)

\* assertions.rs: the exp assertion is skipped exactly when it is Some(86).
is_skip_expiration_marker(val) == val.some /\ val.v = Ascii("86")

\* Serialize for UcanAssertions; the signature as unpadded base64url.
SerializeAssertions(a) ==
    Object(<<
      <<"header", Some(Object(<<
          <<"alg", OptText(a.header.alg)>>,
          <<"typ", OptText(a.header.typ)>> >>))>>,
      <<"payload", Some(Object(<<
          <<"ucv", OptText(a.payload.ucv)>>,
          <<"iss", OptText(a.payload.iss)>>,
          <<"aud", OptText(a.payload.aud)>>,
          <<"exp", IF is_skip_expiration_marker(a.payload.exp) THEN None
                   ELSE Nullable(a.payload.exp)>>,
          <<"nbf", OptNumber(a.payload.nbf)>>,
          <<"nnc", OptText(a.payload.nnc)>>,
          <<"cap", a.payload.cap>>,
          <<"fct", OptFacts(a.payload.fct)>>,
          <<"prf", IF a.payload.prf.some THEN Some(Texts(a.payload.prf.v)) ELSE None>> >>))>>,
      <<"signature", Some(JStr(B64Encode(a.signature)))>> >>)

\* Serialize for the Inputs of verify.rs and refute.rs.
SerializeProofInputs(inputs) ==
    Object(<<
      <<"token", Some(JStr(inputs.token))>>,
      <<"proofs", Some(JObj([c \in DOMAIN inputs.proofs |-> JStr(inputs.proofs[c])]))>> >>)

\* serde_json::to_value of a fixture of any of the four tasks.
to_value(fixture) ==
    CASE fixture.task = "verify" ->
            Object(<<
              <<"name", Some(JStr(Ascii(fixture.name)))>>,
              <<"task", Some(JStr(Ascii(fixture.task)))>>,
              <<"inputs", Some(SerializeProofInputs(fixture.inputs))>>,
              <<"assertions", Some(SerializeAssertions(fixture.assertions))>> >>)
      [] fixture.task = "refute" ->
            Object(<<
              <<"name", Some(JStr(Ascii(fixture.name)))>>,
              <<"task", Some(JStr(Ascii(fixture.task)))>>,
              <<"inputs", Some(SerializeProofInputs(fixture.inputs))>>,
              <<"assertions", Some(SerializeAssertions(fixture.assertions))>>,
              <<"errors", Some(JArr([i \in 1..Len(fixture.errors) |->
                                        JStr(Ascii(fixture.errors[i]))]))>> >>)
      [] fixture.task = "build" ->
            Object(<<
              <<"name", Some(JStr(Ascii(fixture.name)))>>,
              <<"task", Some(JStr(Ascii(fixture.task)))>>,
              <<"inputs", Some(Object(<<
                  <<"version", Some(JStr(fixture.inputs.version))>>,
                  <<"issuer_base64_key", Some(JStr(fixture.inputs.issuer_base64_key))>>,
                  <<"signature_scheme", Some(JStr(fixture.inputs.signature_scheme))>>,
                  <<"audience", Some(JStr(fixture.inputs.audience))>>,
                  <<"not_before", OptNumber(fixture.inputs.not_before)>>,
                  <<"expiration", Nullable(fixture.inputs.expiration)>>,
                  <<"facts", OptFacts(fixture.inputs.facts)>>,
                  <<"capabilities", Some(fixture.inputs.capabilities)>> >>))>>,
              <<"outputs", Some(Object(<<
                  <<"token", Some(JStr(fixture.outputs.token))>> >>))>> >>)
      [] fixture.task = "toCID" ->
            Object(<<
              <<"name", Some(JStr(Ascii(fixture.name)))>>,
              <<"task", Some(JStr(Ascii(fixture.task)))>>,
              <<"inputs", Some(Object(<<
                  <<"token", Some(JStr(fixture.inputs.token))>>,
                  <<"hasher", Some(JStr(Ascii(fixture.inputs.hasher)))>> >>))>>,
              <<"outputs", Some(Object(<<
                  <<"cid", Some(JStr(fixture.outputs.cid))>> >>))>> >>)

\* serde_json::to_string of a Vec of fixtures, as the JSON value the text
\* denotes.
to_string(fixtures) == JArr([i \in 1..Len(fixtures) |-> to_value(fixtures[i])])

-----------------------------------------------------------------------------
(* main: a run of the generator, and the run after it *)

\* How many nonces the signer draws from.
NNonces == 2

\* The nonce of a token that asks for one; no draw otherwise.
Nonces == { <<48 + i>> : i \in 1..NNonces }
NoncesFor(options) == IF options.add_nonce THEN Nonces ELSE { <<>> }

Generators == { "verify", "refute", "build", "to_cid" }

Scenarios(generator) ==
    CASE generator = "verify" -> verify_generate
      [] generator = "refute" -> refute_generate
      [] generator = "build"  -> build_generate
      [] generator = "to_cid" -> to_cid_generate

\* A variant of main that writes each task's file as soon as its generator
\* returns.
NextStage_write_as_generated(stage) ==
    CASE stage = "create_dir"   -> "verify"
      [] stage = "verify"       -> "write_verify"
      [] stage = "write_verify" -> "refute"
      [] stage = "refute"       -> "write_refute"
      [] stage = "write_refute" -> "build"
      [] stage = "build"        -> "write_build"
      [] stage = "write_build"  -> "to_cid"
      [] stage = "to_cid"       -> "write_cid"
      [] stage = "write_cid"    -> "write_all"
      [] stage = "write_all"    -> "done"

\* The statements of main in order: the directory, the four generators,
\* the four per-task files, the combined file.
NextStage(stage) ==
    CASE stage = "create_dir"   -> "verify"
      [] stage = "verify"       -> "refute"
      [] stage = "refute"       -> "build"
      [] stage = "build"        -> "to_cid"
      [] stage = "to_cid"       -> "write_verify"
      [] stage = "write_verify" -> "write_refute"
      [] stage = "write_refute" -> "write_build"
      [] stage = "write_build"  -> "write_cid"
      [] stage = "write_cid"    -> "write_all"
      [] stage = "write_all"    -> "done"

\* The file a write stage writes.
FileOf(stage) ==
    CASE stage = "write_verify" -> "fixtures/0.10.0/verify.json"
      [] stage = "write_refute" -> "fixtures/0.10.0/refute.json"
      [] stage = "write_build"  -> "fixtures/0.10.0/build.json"
      [] stage = "write_cid"    -> "fixtures/0.10.0/cid.json"
      [] stage = "write_all"    -> "fixtures/0.10.0/all.json"

\* A variant of the four loops of main that pushes the build fixtures
\* before the refute fixtures.
AllFixtures_build_first(v, r, b, c) ==
    [i \in 1..Len(v) |-> to_value(v[i])] \o [i \in 1..Len(b) |-> to_value(b[i])]
    \o [i \in 1..Len(r) |-> to_value(r[i])] \o [i \in 1..Len(c) |-> to_value(c[i])]

\* The four loops of main: the value of every fixture pushed, verify first,
\* then refute, build, toCID.
AllFixtures(v, r, b, c) ==
    [i \in 1..Len(v) |-> to_value(v[i])] \o [i \in 1..Len(r) |-> to_value(r[i])]
    \o [i \in 1..Len(b) |-> to_value(b[i])] \o [i \in 1..Len(c) |-> to_value(c[i])]

\* What a signing leaves in the record of the run: the token as signed.
Built(name, role, options, token) ==
    [ name |-> name, role |-> role, add_nonce |-> options.add_nonce, token |-> token ]

\* The idle values of the variables of the tamper engine's own runs.
NoCall   == [op |-> "none"]
NoResult == [ok |-> FALSE, panic |-> "NotCalled"]
NoCodec  == [done |-> FALSE]

\* The variables of a run before main starts, at the given statement.
StartAt(stage) ==
    /\ pc = stage
    /\ run = "first"
    /\ idx = 1
    /\ made = <<>>
    /\ identities = None
    /\ verify_fixtures = <<>>
    /\ refute_fixtures = <<>>
    /\ build_fixtures = <<>>
    /\ to_cid_fixtures = <<>>
    /\ all_fixtures = <<>>
    /\ files = EmptyMap
    /\ printed = <<>>
    /\ built = <<>>
    /\ prev = <<>>
    /\ prev_all = <<>>
    /\ stderr = "none"

RunInit ==
    /\ StartAt("create_dir")
    /\ t_token = <<>>
    /\ t_call = NoCall
    /\ t_result = NoResult
    /\ t_again = NoResult
    /\ t_codec = NoCodec

\* The process is gone: nothing of its memory is left.
MemoryGone ==
    /\ idx' = 1
    /\ made' = <<>>
    /\ identities' = None
    /\ verify_fixtures' = <<>>
    /\ refute_fixtures' = <<>>
    /\ build_fixtures' = <<>>
    /\ to_cid_fixtures' = <<>>
    /\ all_fixtures' = <<>>
    /\ built' = <<>>

\* A panic at the given place: the process aborts with the message; what
\* is on disk stays.
Panic(at) ==
    /\ pc' = "panicked"
    /\ stderr' = at
    /\ MemoryGone
    /\ UNCHANGED <<run, files, printed, prev, prev_all>>

\* fs::create_dir_all(..).expect(..)
CreateDir ==
    /\ pc = "create_dir"
    /\ \/ /\ pc' = NextStage(pc)
          /\ UNCHANGED <<run, idx, made, identities, verify_fixtures, refute_fixtures,
                         build_fixtures, to_cid_fixtures, all_fixtures, files,
                         printed, built, prev, prev_all, stderr>>
       \/ Panic("create_dir")
    /\ UNCHANGED tamper_vars

\* Identities::new().await at the head of a generate.
NewIdentities ==
    /\ pc \in Generators
    /\ ~identities.some
    /\ identities' = Some(Identities_new)
    /\ UNCHANGED <<pc, run, idx, made, verify_fixtures, refute_fixtures,
                   build_fixtures, to_cid_fixtures, all_fixtures, files,
                   printed, built, prev, prev_all, stderr>>
    /\ UNCHANGED tamper_vars

\* The scenario being awaited.
Generating == pc \in Generators /\ identities.some /\ idx <= Len(Scenarios(pc))
Scenario   == Scenarios(pc)[idx]

\* signable.sign().await.unwrap() of make_proof or make_fixture, the signer
\* failing.
SignFails ==
    /\ Generating
    /\ Panic(Scenario.name)
    /\ UNCHANGED tamper_vars

\* The next make_proof(..).await of the scenario.
MakeProof ==
    /\ Generating
    /\ \E sc \in { Scenario }, ids \in { identities.v } :
         /\ Len(made) < Len(sc.proofs)
         /\ \E p \in { sc.proofs[Len(made) + 1] } :
              \E nonce \in NoncesFor(p.options) :
                \E proof \in { make_proof(ids[p.issuer], ids[p.audience], p.options, nonce) } :
                  /\ made' = Append(made, proof)
                  /\ built' = Append(built, Built(sc.name, "proof", p.options, proof.token))
    /\ UNCHANGED <<pc, run, idx, identities, verify_fixtures, refute_fixtures,
                   build_fixtures, to_cid_fixtures, all_fixtures, files,
                   printed, prev, prev_all, stderr>>
    /\ UNCHANGED tamper_vars

\* verify.rs: the make_fixture(..).await of the scenario; the fixture is the
\* next element of the vector.
VerifyFixture ==
    /\ Generating /\ pc = "verify"
    /\ \E sc \in { Scenario }, ids \in { identities.v } :
         /\ Len(made) = Len(sc.proofs)
         /\ \E options \in { WithProofs(sc.options, made) } :
              \E nonce \in NoncesFor(options) :
                \E fixture \in { verify_make_fixture(sc.name, ids[sc.issuer],
                                     ids[sc.audience], options, ProofMap(made), nonce) } :
                  /\ verify_fixtures' = Append(verify_fixtures, fixture)
                  /\ built' = Append(built, Built(sc.name, "fixture", options,
                                                  fixture.inputs.token))
    /\ idx' = idx + 1
    /\ made' = <<>>
    /\ UNCHANGED <<pc, run, identities, refute_fixtures, build_fixtures,
                   to_cid_fixtures, all_fixtures, files, printed, prev, prev_all, stderr>>
    /\ UNCHANGED tamper_vars

\* refute.rs: the make_fixture(..).await of the scenario, then what the
\* scenario does to the fixture: the assertion it clears and the tampered
\* token it puts in place of the signed one. A panic of the tamper call
\* aborts the run.
RefuteFixture ==
    /\ Generating /\ pc = "refute"
    /\ \E sc \in { Scenario }, ids \in { identities.v } :
         /\ Len(made) = Len(sc.proofs)
         /\ \E options \in { WithProofs(sc.options, made) } :
              \E nonce \in NoncesFor(options) :
                \E fixture \in { refute_make_fixture(sc.name, ids[sc.issuer],
                                     ids[sc.audience], options, ProofMap(made),
                                     sc.errors, nonce) } :
                  \E tampered \in { Tamper(fixture.inputs.token, sc.tamper, ids) } :
                    IF tampered.ok
                    THEN /\ refute_fixtures' = Append(refute_fixtures,
                               [fixture EXCEPT
                                   !.assertions = SetAssertion(fixture.assertions, sc.edit),
                                   !.inputs.token = tampered.token])
                         /\ built' = Append(built, Built(sc.name, "fixture", options,
                                                         fixture.inputs.token))
                         /\ idx' = idx + 1
                         /\ made' = <<>>
                         /\ UNCHANGED <<pc, run, identities, verify_fixtures,
                                        build_fixtures, to_cid_fixtures, all_fixtures,
                                        files, printed, prev, prev_all, stderr>>
                    ELSE Panic(sc.name)
    /\ UNCHANGED tamper_vars

\* build.rs: the make_fixture(..).await of the scenario.
BuildFixture ==
    /\ Generating /\ pc = "build"
    /\ \E sc \in { Scenario }, ids \in { identities.v } :
         \E nonce \in NoncesFor(sc.options) :
           \E fixture \in { build_make_fixture(sc.name, ids[sc.issuer],
                                sc.issuer_base64_key, sc.signature_scheme,
                                ids[sc.audience], sc.options, nonce) } :
             /\ build_fixtures' = Append(build_fixtures, fixture)
             /\ built' = Append(built, Built(sc.name, "fixture", sc.options,
                                             fixture.outputs.token))
    /\ idx' = idx + 1
    /\ UNCHANGED <<pc, run, made, identities, verify_fixtures, refute_fixtures,
                   to_cid_fixtures, all_fixtures, files, printed, prev, prev_all, stderr>>
    /\ UNCHANGED tamper_vars

\* to_cid.rs: the make_fixture(..).await of the scenario.
ToCIDFixture ==
    /\ Generating /\ pc = "to_cid"
    /\ \E sc \in { Scenario }, ids \in { identities.v } :
         \E nonce \in NoncesFor(sc.options) :
           \E fixture \in { to_cid_make_fixture(sc.name, ids[sc.issuer],
                                ids[sc.audience], sc.hasher, sc.options, nonce) } :
             /\ to_cid_fixtures' = Append(to_cid_fixtures, fixture)
             /\ built' = Append(built, Built(sc.name, "fixture", sc.options,
                                             fixture.inputs.token))
    /\ idx' = idx + 1
    /\ UNCHANGED <<pc, run, made, identities, verify_fixtures, refute_fixtures,
                   build_fixtures, all_fixtures, files, printed, prev, prev_all, stderr>>
    /\ UNCHANGED tamper_vars

\* Ok(fixtures): the generator returns and main goes on.
GenerateReturns ==
    /\ pc \in Generators /\ identities.some /\ idx > Len(Scenarios(pc))
    /\ pc' = NextStage(pc)
    /\ idx' = 1
    /\ identities' = None
    /\ UNCHANGED <<run, made, verify_fixtures, refute_fixtures, build_fixtures,
                   to_cid_fixtures, all_fixtures, files, printed, built, prev, prev_all,
                   stderr>>
    /\ UNCHANGED tamper_vars

\* The vector a write stage serializes.
FixturesOf(stage) ==
    CASE stage = "write_verify" -> verify_fixtures
      [] stage = "write_refute" -> refute_fixtures
      [] stage = "write_build"  -> build_fixtures
      [] stage = "write_cid"    -> to_cid_fixtures

\* fs::write(path, to_string(&fixtures)).unwrap_or_else(|err| println!(..)):
\* the file is written, or the error is printed; main goes on either way.
WriteFile ==
    /\ pc \in { "write_verify", "write_refute", "write_build", "write_cid" }
    /\ \/ /\ files' = MapInsert(files, FileOf(pc), to_string(FixturesOf(pc)))
          /\ UNCHANGED printed
       \/ /\ printed' = Append(printed, FileOf(pc))
          /\ UNCHANGED files
    /\ pc' = NextStage(pc)
    /\ UNCHANGED <<run, idx, made, identities, verify_fixtures, refute_fixtures,
                   build_fixtures, to_cid_fixtures, all_fixtures, built, prev, prev_all,
                   stderr>>
    /\ UNCHANGED tamper_vars

\* The four loops that fill all_fixtures, and the write of all.json.
WriteAll ==
    /\ pc = "write_all"
    /\ all_fixtures' = AllFixtures(verify_fixtures, refute_fixtures,
                                   build_fixtures, to_cid_fixtures)
    /\ \/ /\ files' = MapInsert(files, FileOf(pc), JArr(all_fixtures'))
          /\ UNCHANGED printed
       \/ /\ printed' = Append(printed, FileOf(pc))
          /\ UNCHANGED files
    /\ pc' = NextStage(pc)
    /\ UNCHANGED <<run, idx, made, identities, verify_fixtures, refute_fixtures,
                   build_fixtures, to_cid_fixtures, built, prev, prev_all, stderr>>
    /\ UNCHANGED tamper_vars

\* The program is run again, in a directory without fixtures.
RunAgain ==
    /\ pc \in { "done", "panicked" }
    /\ run = "first"
    /\ pc' = "create_dir"
    /\ run' = "second"
    /\ prev' = built
    /\ prev_all' = all_fixtures
    /\ MemoryGone
    /\ files' = EmptyMap
    /\ printed' = <<>>
    /\ stderr' = "none"
    /\ UNCHANGED tamper_vars

RunNext ==
    \/ CreateDir \/ NewIdentities \/ SignFails \/ MakeProof
    \/ VerifyFixture \/ RefuteFixture \/ BuildFixture \/ ToCIDFixture
    \/ GenerateReturns \/ WriteFile \/ WriteAll \/ RunAgain

SpecRun == RunInit /\ [][RunNext]_vars

-----------------------------------------------------------------------------
(* The tamper engine on its own: every token of a bounded set, every call *)

\* How many keys and values of the pools below the generated field maps use.
NKeys == 2
NVals == 2

KeyPool == << Ascii("iss"), Ascii("exp"), Ascii("q\"k") >>

ValuePool ==
    << JStr(Ascii("x\"\\y")),
       JArr(<< JNull, JNum(<<56, 54>>), JObj(EmptyMap) >>),
       JNull,
       JObj(MapInsert(EmptyMap, Ascii("q\"k"), JBool(TRUE))) >>

PoolKeys == { KeyPool[i] : i \in 1..NKeys }
PoolVals == { ValuePool[i] : i \in 1..NVals }

\* Every field map over the pools.
PoolMaps == UNION { [K -> PoolVals] : K \in SUBSET PoolKeys }

\* Parts that no map_to_part wrote: JSON with white space, unsorted and
\* repeated keys; JSON that is no object; padded base64; invalid UTF-8.
RawParts ==
    { B64Encode(Ascii(" {\"iss\":\"x\", \"exp\":1,\"exp\":2} ")),
      B64Encode(Ascii("[1]")),
      Ascii("e30="),
      B64Encode(<<255>>) }

TamperHeaders ==
    { map_to_part(HeaderMap),
      B64Encode(Ascii("{\"typ\":\"JWT\",\"alg\":\"EdDSA\"}")),
      B64Encode(Ascii("[1]")) }

TamperPayloads == { map_to_part(m) : m \in PoolMaps } \cup RawParts

\* The three-part tokens handed to the engine, each signed by alice.
TamperTokens ==
    { sign(h, p, KeyMaterial("alice")).token : h \in TamperHeaders, p \in TamperPayloads }

TamperParts   == { "header", "payload", "signature" }
TamperFields  == PoolKeys \cup { Ascii("alg"), Ascii("zzz") }
TamperValues  == { JNum(<<49>>), JNull }
TamperSigners == { KeyMaterial("alice"), KeyMaterial("bob") }

TamperInit ==
    /\ t_token \in TamperTokens
    /\ t_call = NoCall
    /\ t_result = NoResult
    /\ t_again = NoResult
    /\ t_codec = NoCodec
    /\ StartAt("none")

\* One call of remove_field.
RemoveField ==
    /\ t_call = NoCall
    /\ t_codec = NoCodec
    /\ \E part \in TamperParts, field \in TamperFields, signer \in TamperSigners :
          /\ t_call' = [op |-> "remove", part |-> part, field |-> field,
                        value |-> JNull, signer |-> signer]
          /\ t_result' = remove_field(t_token, part, field, signer)
    /\ UNCHANGED <<t_token, t_again, t_codec>>
    /\ UNCHANGED run_vars

\* One call of mutate_field.
MutateField ==
    /\ t_call = NoCall
    /\ t_codec = NoCodec
    /\ \E part \in TamperParts, field \in TamperFields, value \in TamperValues,
          signer \in TamperSigners :
          /\ t_call' = [op |-> "mutate", part |-> part, field |-> field,
                        value |-> value, signer |-> signer]
          /\ t_result' = mutate_field(t_token, part, field, value, signer)
    /\ UNCHANGED <<t_token, t_again, t_codec>>
    /\ UNCHANGED run_vars

\* remove_field called again, with the same arguments, on the token it returned.
RemoveAgain ==
    /\ t_call.op = "remove"
    /\ t_result.ok
    /\ t_again = NoResult
    /\ t_again' = remove_field(t_result.token, t_call.part, t_call.field, t_call.signer)
    /\ UNCHANGED <<t_token, t_call, t_result, t_codec>>
    /\ UNCHANGED run_vars

\* A field map encoded, decoded, and encoded again.
CodecRoundTrip ==
    /\ t_call = NoCall
    /\ t_codec = NoCodec
    /\ \E m \in PoolMaps :
          LET part == map_to_part(m)
              back == part_to_map(part)
          IN  t_codec' = [done |-> TRUE, map |-> m, part |-> part, back |-> back,
                          again |-> IF back.ok THEN map_to_part(back.map) ELSE <<>>]
    /\ UNCHANGED <<t_token, t_call, t_result, t_again>>
    /\ UNCHANGED run_vars

TamperNext == RemoveField \/ MutateField \/ RemoveAgain \/ CodecRoundTrip

SpecTamper == TamperInit /\ [][TamperNext]_vars

-----------------------------------------------------------------------------
(* make_fixture on its own: every UcanOptions of a bounded set *)

\* The expirations and not_befores handed to make_fixture: none, 0, the
\* values around 86, and a date.
Expirations == { None, Some(<<48>>), Some(<<56, 53>>), Some(<<56, 54>>),
                 Some(<<56, 55>>), Some(Ascii("9246211200")) }
NotBefores  == { None, Some(<<49>>) }
IssuerKeys3 == { "alice_key", "bob_key", "mallory_key" }
Audiences   == { "alice_did", "bob_did", "mallory_did" }

OptionsInit ==
    /\ StartAt("make_fixture")
    /\ t_token = <<>>
    /\ t_call = NoCall
    /\ t_result = NoResult
    /\ t_again = NoResult
    /\ t_codec = NoCodec

\* verify.rs make_fixture called with the options, and the fixture serialized.
MakeVerifyFixture ==
    /\ pc = "make_fixture"
    /\ \E expiration \in Expirations, not_before \in NotBefores,
          issuer \in IssuerKeys3, audience \in Audiences :
         \E options \in { [DefaultOptions EXCEPT !.expiration = expiration,
                                                 !.not_before = not_before] } :
           \E fixture \in { verify_make_fixture(not_expired.name,
                                Identities_new[issuer], Identities_new[audience],
                                options, ProofMap(<<>>), <<>>) } :
             /\ verify_fixtures' = <<fixture>>
             /\ built' = << Built(fixture.name, "fixture", options, fixture.inputs.token) >>
             /\ all_fixtures' = << to_value(fixture) >>
    /\ pc' = "made"
    /\ UNCHANGED <<run, idx, made, identities, refute_fixtures, build_fixtures,
                   to_cid_fixtures, files, printed, prev, prev_all, stderr>>
    /\ UNCHANGED tamper_vars

\* refute.rs make_fixture called with the options, then the two lines of
\* missing_expiration: the marker Some(86) and remove_field of exp; and the
\* fixture serialized.
MakeRefuteFixture ==
    /\ pc = "make_fixture"
    /\ \E expiration \in Expirations, not_before \in NotBefores,
          issuer \in IssuerKeys3, audience \in Audiences :
         \E options \in { [DefaultOptions EXCEPT !.expiration = expiration,
                                                 !.not_before = not_before] } :
           \E fixture \in { refute_make_fixture(missing_expiration.name,
                                Identities_new[issuer], Identities_new[audience],
                                options, ProofMap(<<>>), missing_expiration.errors,
                                <<>>) } :
             \E tampered \in { Tamper(fixture.inputs.token,
                                      [missing_expiration.tamper EXCEPT !.signer = issuer],
                                      Identities_new) } :
               \E pushed \in { [fixture EXCEPT
                                   !.assertions = SetAssertion(fixture.assertions,
                                                               missing_expiration.edit),
                                   !.inputs.token = tampered.token] } :
                 /\ tampered.ok
                 /\ refute_fixtures' = <<pushed>>
                 /\ built' = << Built(fixture.name, "fixture", options,
                                      fixture.inputs.token) >>
                 /\ all_fixtures' = << to_value(pushed) >>
    /\ pc' = "made"
    /\ UNCHANGED <<run, idx, made, identities, verify_fixtures, build_fixtures,
                   to_cid_fixtures, files, printed, prev, prev_all, stderr>>
    /\ UNCHANGED tamper_vars

\* The hasher labels handed to to_cid.rs make_fixture: the two the match
\* names, and two it does not.
Hashers == { "SHA2-256", "BLAKE3-256", "SHA3-256", "sha2-256" }

\* to_cid.rs make_fixture called with the hasher label and the options.
MakeToCIDFixture ==
    /\ pc = "make_fixture"
    /\ \E hasher \in Hashers, expiration \in Expirations,
          issuer \in IssuerKeys3, audience \in Audiences :
         \E options \in { [DefaultOptions EXCEPT !.expiration = expiration] } :
           \E fixture \in { to_cid_make_fixture(computes_cid_with_sha2_256_hasher.name,
                                Identities_new[issuer], Identities_new[audience],
                                hasher, options, <<>>) } :
             /\ to_cid_fixtures' = <<fixture>>
             /\ built' = << Built(fixture.name, "fixture", options, fixture.inputs.token) >>
    /\ pc' = "made"
    /\ UNCHANGED <<run, idx, made, identities, verify_fixtures, refute_fixtures,
                   build_fixtures, all_fixtures, files, printed, prev, prev_all,
                   stderr>>
    /\ UNCHANGED tamper_vars

OptionsNext == MakeVerifyFixture \/ MakeRefuteFixture \/ MakeToCIDFixture

SpecOptions == OptionsInit /\ [][OptionsNext]_vars

-----------------------------------------------------------------------------
(* Properties of the tamper engine *)

\* The call was made on one of the two parts the engine knows.
OnNamedPart == t_call.op \in {"remove", "mutate"} /\ t_call.part \in {"header", "payload"}

\* The index, in the split token, of the part the call names and of the other one.
NamedIndex == IF t_call.part = "header" THEN 1 ELSE 2
OtherIndex == IF t_call.part = "header" THEN 2 ELSE 1

\* The named part of the input token and of the returned token, decoded.
NamedIn  == part_to_map(Split(t_token)[NamedIndex])
NamedOut == part_to_map(Split(t_result.token)[NamedIndex])

\* C1 (tamper isolation): a token returned by remove_field or mutate_field
\* has three parts, and its part that the call did not name is, byte for
\* byte, that part of the input token.
C1_TamperIsolation ==
    (OnNamedPart /\ t_result.ok) =>
        /\ Len(Split(t_result.token)) = 3
        /\ Split(t_result.token)[OtherIndex] = Split(t_token)[OtherIndex]

\* C1 witness: a call on the payload changed the payload of a token whose
\* header text is not what map_to_part would write.
C1_Witness ==
    /\ OnNamedPart /\ t_result.ok /\ t_call.part = "payload"
    /\ Split(t_result.token)[2] # Split(t_token)[2]
    /\ Split(t_token)[1] = B64Encode(Ascii("{\"typ\":\"JWT\",\"alg\":\"EdDSA\"}"))

\* C3 (mutate needs the field): when the named part decodes and does not
\* hold the field, mutate_field panics at the field's lookup and returns no
\* token; a token it does return has the key set of the input part.
C3_MutateRequiresField ==
    (OnNamedPart /\ t_call.op = "mutate" /\ NamedIn.ok) =>
        /\ t_call.field \notin DOMAIN NamedIn.map => t_result = Panicked("FieldNotFound")
        /\ t_result.ok => NamedOut.ok /\ DOMAIN NamedOut.map = DOMAIN NamedIn.map

\* C3 witness: mutate_field was called for a field the decoded part lacks.
C3_Witness ==
    /\ OnNamedPart /\ t_call.op = "mutate" /\ NamedIn.ok
    /\ t_call.field \notin DOMAIN NamedIn.map
    /\ DOMAIN NamedIn.map # {}
    /\ ~t_result.ok

\* C4 (remove deletes one field): when the named part decodes, remove_field
\* returns a token whose named part decodes to the input map without the
\* field, every other key with its value; an absent field is no error.
C4_RemoveDeletesField ==
    (OnNamedPart /\ t_call.op = "remove" /\ NamedIn.ok) =>
        /\ t_result.ok
        /\ NamedOut.ok
        /\ NamedOut.map = [k \in (DOMAIN NamedIn.map) \ {t_call.field} |-> NamedIn.map[k]]

\* C4 witness: a field was removed from a part that holds another one.
C4_Witness ==
    /\ OnNamedPart /\ t_call.op = "remove" /\ NamedIn.ok /\ t_result.ok
    /\ t_call.field \in DOMAIN NamedIn.map
    /\ Cardinality(DOMAIN NamedIn.map) = 2

\* C5 (unsupported part): a call that names a part other than header and
\* payload panics at the match's default arm, whatever the token, the
\* field, the value and the signer, and returns no token.
C5_UnsupportedPart ==
    (t_call.op \in {"remove", "mutate"} /\ t_call.part \notin {"header", "payload"}) =>
        t_result = Panicked("UnsupportedPart")

\* C5 witness: mutate_field was called on the part "signature" of a token
\* whose payload decodes and holds the field.
C5_Witness ==
    /\ t_call.op = "mutate" /\ t_call.part = "signature"
    /\ part_to_map(Split(t_token)[2]).ok
    /\ t_call.field \in DOMAIN part_to_map(Split(t_token)[2]).map
    /\ ~t_result.ok

NamedText == Split(t_token)[NamedIndex]

\* The text is not unpadded base64url.
NotBase64Url(text) == ~B64Decode(text).ok

\* The text is base64url of bytes that are not the text of one JSON object.
NotJsonObject(text) ==
    /\ B64Decode(text).ok
    /\ \/ ~FromUtf8(B64Decode(text).bytes).ok
       \/ ~FromStrMap(B64Decode(text).bytes).ok

\* C20 (a malformed part is a decode failure): a call that names a part
\* whose text is not unpadded base64url, or whose bytes are not a JSON
\* object, panics at the decoding, whatever the field, the value and the
\* signer, and returns no token.
C20_DecodeError ==
    (OnNamedPart /\ (NotBase64Url(NamedText) \/ NotJsonObject(NamedText))) =>
        /\ t_result = Panicked("DecodeError")
        /\ ~t_result.ok

\* C20 witness: remove_field was called on the header of a token whose
\* header is the JSON array [1] and whose payload decodes.
C20_Witness ==
    /\ OnNamedPart /\ t_call.op = "remove" /\ t_call.part = "header"
    /\ NotJsonObject(NamedText)
    /\ part_to_map(Split(t_token)[2]).ok
    /\ ~t_result.ok

\* C21 (mutate replaces one value): when the named part decodes and holds
\* the field, mutate_field returns a token whose named part decodes to the
\* input map with that field's value replaced by the new value: the same
\* keys, every other field with its value.
C21_MutateReplacesValue ==
    (OnNamedPart /\ t_call.op = "mutate" /\ NamedIn.ok
        /\ t_call.field \in DOMAIN NamedIn.map) =>
        /\ t_result.ok
        /\ NamedOut.ok
        /\ DOMAIN NamedOut.map = DOMAIN NamedIn.map
        /\ NamedOut.map[t_call.field] = t_call.value
        /\ \A k \in (DOMAIN NamedIn.map) \ {t_call.field} :
              NamedOut.map[k] = NamedIn.map[k]

\* C21 witness: mutate_field gave a new value to one of the two fields of
\* a payload.
C21_Witness ==
    /\ OnNamedPart /\ t_call.op = "mutate" /\ t_call.part = "payload"
    /\ NamedIn.ok /\ t_result.ok
    /\ Cardinality(DOMAIN NamedIn.map) = 2
    /\ t_call.field \in DOMAIN NamedIn.map
    /\ NamedIn.map[t_call.field] # t_call.value

\* C22 (re-signing after tampering): a token returned by remove_field or
\* mutate_field has exactly three parts, and the third is the unpadded
\* base64url text of the signer's signature over the returned header part,
\* a dot, and the returned payload part.
C22_ReSigned ==
    (OnNamedPart /\ t_result.ok) =>
        /\ Len(Split(t_result.token)) = 3
        /\ Split(t_result.token)[3] =
              B64Encode(Ed25519Sign(t_call.signer.private,
                                    Split(t_result.token)[1] \o <<46>>
                                        \o Split(t_result.token)[2]))

\* C22 witness: bob re-signed a token of alice's whose payload the call
\* changed; the signature is neither the input's nor one over the input's
\* two parts.
C22_Witness ==
    /\ OnNamedPart /\ t_result.ok /\ t_call.part = "payload"
    /\ t_call.signer = KeyMaterial("bob")
    /\ Split(t_result.token)[2] # Split(t_token)[2]
    /\ Split(t_result.token)[3] # Split(t_token)[3]
    /\ Split(t_result.token)[3] #
          B64Encode(Ed25519Sign("bob", Split(t_token)[1] \o <<46>> \o Split(t_token)[2]))

\* C30 (remove_field is idempotent): remove_field called again, with the
\* same part, field and signer, on the token it returned, returns that
\* token, byte for byte, signature included.
C30_RemoveIdempotent ==
    (t_call.op = "remove" /\ t_result.ok /\ t_again # NoResult) =>
        /\ t_again.ok
        /\ t_again.token = t_result.token

\* C30 witness: the first call removed a field and rewrote a payload that
\* no map_to_part had written, and the call was made again on its result.
C30_Witness ==
    /\ t_call.op = "remove" /\ t_call.part = "payload"
    /\ t_result.ok /\ t_again # NoResult
    /\ t_call.field \in DOMAIN NamedIn.map
    /\ Split(t_token)[2] # map_to_part(NamedIn.map)
    /\ t_result.token # t_token

-----------------------------------------------------------------------------
(* Properties of a run of main *)

\* The vector a generator fills, and the token a fixture carries.
VectorOf(task) ==
    CASE task = "verify" -> verify_fixtures
      [] task = "refute" -> refute_fixtures
      [] task = "build"  -> build_fixtures
      [] task = "to_cid" -> to_cid_fixtures

TokenOf(fixture) ==
    IF fixture.task = "build" THEN fixture.outputs.token ELSE fixture.inputs.token

\* The generator has just pushed a fixture: the one before idx.
JustPushed == pc \in Generators /\ idx > 1 /\ made = <<>> /\ Len(VectorOf(pc)) = idx - 1

\* The token's third part is the signature of the key over its first two
\* parts joined by a dot.
SignedBy(token, key) ==
    \E parts \in { Split(token) } :
        /\ Len(parts) = 3
        /\ \E sig \in { B64Decode(parts[3]) } :
             /\ sig.ok
             /\ Ed25519Verify(key.public, parts[1] \o <<46>> \o parts[2], sig.bytes)

\* The keys that can count as the issuer's: the key the scenario built the
\* token with, and the key whose DID the token's iss field names.
IssuerKeys(scenario, token) ==
    { Identities_new[scenario.issuer] }
    \cup { key \in { KeyMaterial("alice"), KeyMaterial("bob"), KeyMaterial("mallory") } :
             \E parts \in { Split(token) } :
                 /\ Len(parts) = 3
                 /\ \E payload \in { part_to_map(parts[2]) } :
                      /\ payload.ok
                      /\ Ascii("iss") \in DOMAIN payload.map
                      /\ payload.map[Ascii("iss")] = JStr(get_did(key)) }

\* C2 (signature validity): the token of every fixture pushed to a vector,
\* tampered or not, carries a signature that verifies under the issuer's
\* public key over header-part "." payload-part.
C2_SignatureValidity ==
    JustPushed =>
        \E fixture \in { VectorOf(pc)[idx - 1] } :
            \E key \in IssuerKeys(Scenarios(pc)[idx - 1], TokenOf(fixture)) :
                SignedBy(TokenOf(fixture), key)

\* The second run has signed a token at a position the first run reached.
Compared == run = "second" /\ built # <<>> /\ Len(built) <= Len(prev)

\* Two tokens with the same header part whose payloads hold nnc and are
\* equal outside it; they are the same token exactly when the nonces are.
DifferOnlyInNonce(a, b) ==
    \E pa \in { Split(a) }, pb \in { Split(b) } :
        /\ Len(pa) = 3 /\ Len(pb) = 3
        /\ pa[1] = pb[1]
        /\ \E ma \in { part_to_map(pa[2]) }, mb \in { part_to_map(pb[2]) } :
             /\ ma.ok /\ mb.ok
             /\ Ascii("nnc") \in DOMAIN ma.map /\ Ascii("nnc") \in DOMAIN mb.map
             /\ MapRemove(ma.map, Ascii("nnc")) = MapRemove(mb.map, Ascii("nnc"))
             /\ (ma.map[Ascii("nnc")] = mb.map[Ascii("nnc")]) <=> (a = b)

C8_ContentAddressing ==
    Len(to_cid_fixtures) = 2 =>
        \E s \in { to_cid_fixtures[1] }, b \in { to_cid_fixtures[2] } :
            /\ s.inputs.token = b.inputs.token
            /\ s.inputs.hasher # b.inputs.hasher
            /\ s.outputs.cid # b.outputs.cid
            /\ \A task \in { "verify", "refute" } :
                 \A i \in 1..Len(VectorOf(task)) :
                   \A cid \in DOMAIN VectorOf(task)[i].inputs.proofs :
                     VectorOf(task)[i].inputs.proofs[cid] = s.inputs.token
                        => cid = s.outputs.cid

\* C8 witness: both toCID fixtures are made, and a verify fixture holds a
\* proof that is the token they hash.
C8_Witness ==
    /\ Len(to_cid_fixtures) = 2
    /\ to_cid_fixtures[1].inputs.hasher = "SHA2-256"
    /\ to_cid_fixtures[2].inputs.hasher = "BLAKE3-256"
    /\ \E i \in 1..Len(verify_fixtures) :
         \E cid \in DOMAIN verify_fixtures[i].inputs.proofs :
           verify_fixtures[i].inputs.proofs[cid] = to_cid_fixtures[1].inputs.token

\* The names of a sequence of scenarios or fixtures, in order.
NamesOf(v) == [i \in 1..Len(v) |-> v[i].name]

\* C9 (catalog order): each vector holds, in the order of its generator's
\* list, the fixtures of the scenarios awaited so far; a second run signs
\* for the same scenarios at the same positions; and all_fixtures is the
\* values of the verify, refute, build and toCID vectors, in that order,
\* nothing added or dropped.
C9_CatalogOrder ==
    /\ \A task \in Generators :
         /\ Len(VectorOf(task)) <= Len(Scenarios(task))
         /\ NamesOf(VectorOf(task))
              = SubSeq(NamesOf(Scenarios(task)), 1, Len(VectorOf(task)))
    /\ run = "second" =>
         \A i \in 1..Len(built) :
           i <= Len(prev) => built[i].name = prev[i].name /\ built[i].role = prev[i].role
    /\ pc = "done" =>
         \E per \in { verify_fixtures \o refute_fixtures \o build_fixtures
                      \o to_cid_fixtures } :
           /\ Len(all_fixtures) = Len(per)
           /\ Len(per) = Len(verify_generate) + Len(refute_generate)
                         + Len(build_generate) + Len(to_cid_generate)
           /\ \A i \in 1..Len(per) : all_fixtures[i] = to_value(per[i])

\* C9 witness: a second run after a complete first run has filled
\* all_fixtures and written it.
C9_Witness ==
    /\ pc = "done" /\ run = "second"
    /\ Len(prev) = Len(built)
    /\ Len(all_fixtures) > Len(refute_generate)
    /\ "fixtures/0.10.0/all.json" \in DOMAIN files

\* C10 (a failure is fatal): a run that panicked has written no file; and
\* a file is written only when every scenario of every generator has its
\* fixture, and holds every fixture of its vector.
C10_FailureIsFatal ==
    /\ pc = "panicked" => DOMAIN files = {}
    /\ DOMAIN files # {} =>
         \A task \in Generators : Len(VectorOf(task)) = Len(Scenarios(task))
    /\ \A stage \in { "write_verify", "write_refute", "write_build", "write_cid" } :
         FileOf(stage) \in DOMAIN files =>
            Len(files[FileOf(stage)].a) = Len(FixturesOf(stage))

\* C10 witness: the signing of a refute scenario failed, after the verify
\* generator had returned all its fixtures.
C10_Witness ==
    /\ pc = "panicked"
    /\ stderr = "UCAN issuer does not match proof audience"
    /\ DOMAIN files = {}

\* The required fields, each with its part and the part's index in a token.
RequiredFields ==
    { [part |-> "header",  at |-> 1, other |-> 2, field |-> Ascii("alg")],
      [part |-> "header",  at |-> 1, other |-> 2, field |-> Ascii("typ")],
      [part |-> "payload", at |-> 2, other |-> 1, field |-> Ascii("ucv")],
      [part |-> "payload", at |-> 2, other |-> 1, field |-> Ascii("iss")],
      [part |-> "payload", at |-> 2, other |-> 1, field |-> Ascii("aud")],
      [part |-> "payload", at |-> 2, other |-> 1, field |-> Ascii("exp")],
      [part |-> "payload", at |-> 2, other |-> 1, field |-> Ascii("cap")] }

\* The refute generator has just pushed a fixture; the token it carries,
\* and the token as it was signed, before the scenario's tamper call.
RefutePushed == JustPushed /\ pc = "refute"
Pushed       == refute_fixtures[idx - 1]
PreTamper    == built[Len(built)].token

\* The fixture's token is the signed token with exactly this field taken
\* out of its part, the other part untouched; and the written assertions
\* of that part hold the fields the token's part holds, so not this one.
RemovesExactly(fixture, signed, rf) ==
    \E after \in { Split(fixture.inputs.token) }, before \in { Split(signed) } :
        /\ Len(after) = 3 /\ Len(before) = 3
        /\ after[rf.other] = before[rf.other]
        /\ \E am \in { part_to_map(after[rf.at]) }, bm \in { part_to_map(before[rf.at]) } :
             /\ am.ok /\ bm.ok
             /\ rf.field \in DOMAIN bm.map
             /\ am.map = MapRemove(bm.map, rf.field)
             /\ \E written \in { SerializeAssertions(fixture.assertions).o[Ascii(rf.part)].o } :
                  /\ rf.field \notin DOMAIN written
                  /\ DOMAIN written = DOMAIN am.map

\* The named part of the fixture's token decodes and lacks the field.
Lacks(fixture, rf) ==
    \E parts \in { Split(fixture.inputs.token) } :
        /\ Len(parts) = 3
        /\ \E m \in { part_to_map(parts[rf.at]) } : m.ok /\ rf.field \notin DOMAIN m.map

\* C11 (missing-field scenarios): a refute fixture with errors
\* ["missingField"] carries the signed token with exactly one required
\* field removed from its part, the other part byte for byte the signed
\* one, and that field absent from its written assertions; and for each
\* of alg, typ, ucv, iss, aud, exp, cap the complete refute vector holds
\* exactly one such fixture.
C11_MissingFieldScenarios ==
    /\ (RefutePushed /\ Pushed.errors = <<"missingField">>) =>
          Cardinality({ rf \in RequiredFields : RemovesExactly(Pushed, PreTamper, rf) }) = 1
    /\ (pc = "refute" /\ Len(refute_fixtures) = Len(refute_generate)) =>
          \A rf \in RequiredFields :
             Cardinality({ i \in 1..Len(refute_fixtures) :
                             /\ refute_fixtures[i].errors = <<"missingField">>
                             /\ Lacks(refute_fixtures[i], rf) }) = 1

\* C11 witness: the fixture of missing_expiration is pushed, its token
\* without exp, its exp assertion at the marker.
C11_Witness ==
    /\ RefutePushed
    /\ Pushed.name = "UCAN payload is missing exp field"
    /\ Pushed.errors = <<"missingField">>
    /\ Pushed.assertions.payload.exp = Some(Ascii("86"))
    /\ Lacks(Pushed, [part |-> "payload", at |-> 2, other |-> 1, field |-> Ascii("exp")])

\* The scenario whose fixture the generator has just pushed.
PushedScenario == Scenarios(pc)[idx - 1]

\* The token has three parts and its payload part decodes; the decoded map.
PayloadDecodes(token) ==
    \E parts \in { Split(token) } : Len(parts) = 3 /\ part_to_map(parts[2]).ok

PayloadMapOf(token) == part_to_map(Split(token)[2]).map

\* The payload of the fixture's token holds the field with the number, and
\* so do the assertions, in memory and as written.
CarriesNumber(fixture, field, digits) ==
    /\ PayloadDecodes(fixture.inputs.token)
    /\ \E payload \in { PayloadMapOf(fixture.inputs.token) } :
         /\ Ascii(field) \in DOMAIN payload
         /\ payload[Ascii(field)] = JNum(Ascii(digits))
    /\ fixture.assertions.payload[field] = Some(Ascii(digits))
    /\ \E written \in { SerializeAssertions(fixture.assertions).o[Ascii("payload")].o } :
         /\ Ascii(field) \in DOMAIN written
         /\ written[Ascii(field)] = JNum(Ascii(digits))

\* C12 (single-token time bounds): the refute scenario without proofs
\* built from alice to bob with exp = 1 yields a fixture with errors
\* exactly ["expired"] whose token's payload exp, and exp assertion, is 1;
\* the one with nbf = 9246211200 yields errors exactly ["notReady"] with
\* the payload nbf, and nbf assertion, that value.
C12_SingleTokenTimeBounds ==
    (RefutePushed /\ PushedScenario.proofs = <<>>
        /\ PushedScenario.issuer = "alice_key" /\ PushedScenario.audience = "bob_did") =>
        /\ PushedScenario.options.expiration = Some(Ascii("1")) =>
              /\ Pushed.errors = <<"expired">>
              /\ CarriesNumber(Pushed, "exp", "1")
        /\ PushedScenario.options.not_before = Some(Ascii("9246211200")) =>
              /\ Pushed.errors = <<"notReady">>
              /\ CarriesNumber(Pushed, "nbf", "9246211200")
        /\ "expired" \in { Pushed.errors[i] : i \in 1..Len(Pushed.errors) } =>
              PushedScenario.options.expiration = Some(Ascii("1"))
        /\ "notReady" \in { Pushed.errors[i] : i \in 1..Len(Pushed.errors) } =>
              PushedScenario.options.not_before = Some(Ascii("9246211200"))

\* C12 witness: the fixture of expired is pushed, from alice to bob, its
\* payload exp 1.
C12_Witness ==
    /\ RefutePushed
    /\ Pushed.errors = <<"expired">>
    /\ PayloadDecodes(Pushed.inputs.token)
    /\ PayloadMapOf(Pushed.inputs.token)[Ascii("exp")] = JNum(Ascii("1"))
    /\ PayloadMapOf(Pushed.inputs.token)[Ascii("iss")] = JStr(Identities_new.alice_did)
    /\ PayloadMapOf(Pushed.inputs.token)[Ascii("aud")] = JStr(Identities_new.bob_did)

\* The capabilities a token's payload carries: (resource, ability, caveat)
\* for every caveat listed under an ability of a resource.
CapsOf(token) ==
    IF ~PayloadDecodes(token) THEN {}
    ELSE UNION { UNION { UNION { { [resource |-> r, ability |-> a,
                                    caveat |-> cap.o[r].o[a].a[i]] :
                                    i \in 1..Len(cap.o[r].o[a].a) } :
                                 a \in DOMAIN cap.o[r].o } :
                         r \in DOMAIN cap.o } :
                 cap \in { PayloadMapOf(token)[Ascii("cap")] } }

\* The capabilities held in the proofs a fixture cites.
HeldBy(fixture) ==
    UNION { CapsOf(fixture.inputs.proofs[cid]) : cid \in DOMAIN fixture.inputs.proofs }

\* The values a caveat lists under a key.
Listed(value) == IF value.t = "arr" THEN { value.a[i] : i \in 1..Len(value.a) } ELSE { value }

\* No caveat: the empty object.
NoCaveat(caveat) == DOMAIN caveat.o = {}

\* The claimed caveat has no key, and under no key a value, that the held
\* caveat lacks; the empty caveat is such a subset of any.
SubCaveat(claimed, held) ==
    /\ DOMAIN claimed.o \subseteq DOMAIN held.o
    /\ \A k \in DOMAIN claimed.o : Listed(claimed.o[k]) \subseteq Listed(held.o[k])

\* The verify generator has just pushed a fixture that cites proofs.
VerifyPushedWithProofs ==
    JustPushed /\ pc = "verify" /\ DOMAIN verify_fixtures[idx - 1].inputs.proofs # {}

TagsOf(fixture) == { fixture.errors[i] : i \in 1..Len(fixture.errors) }

\* The refute generator has just pushed a fixture tagged invalidDelegation.
InvalidDelegationPushed == RefutePushed /\ "invalidDelegation" \in TagsOf(Pushed)

\* The pairs (claimed, held) of the pushed fixture with one resource and
\* ability.
ClaimedAgainstHeld ==
    { pair \in CapsOf(Pushed.inputs.token) \X HeldBy(Pushed) :
        /\ pair[1].resource = pair[2].resource
        /\ pair[1].ability = pair[2].ability }

CitingPushed ==
    /\ JustPushed /\ pc \in { "verify", "refute" }
    /\ \E fixture \in { VectorOf(pc)[idx - 1] } :
         /\ PayloadDecodes(fixture.inputs.token)
         /\ \E payload \in { PayloadMapOf(fixture.inputs.token) } :
              /\ Ascii("prf") \in DOMAIN payload
              /\ payload[Ascii("prf")].t = "arr"
              /\ \E cid \in DOMAIN fixture.inputs.proofs :
                   JStr(cid) \in Listed(payload[Ascii("prf")])

\* The proof tokens the pushed fixture's token cites.
CitedProofs ==
    { VectorOf(pc)[idx - 1].inputs.proofs[cid] :
        cid \in { c \in DOMAIN VectorOf(pc)[idx - 1].inputs.proofs :
                    JStr(c) \in Listed(PayloadMapOf(VectorOf(pc)[idx - 1].inputs.token)[Ascii("prf")]) } }

\* C15 (proof-audience binding): the token of a fixture that cites a proof
\* has, as iss, the aud of every proof token it cites, unless the fixture
\* is a refute fixture tagged invalidDelegation; so a refute fixture tagged
\* timeBoundsViolation only keeps iss equal to the proof's aud.
C15_ProofAudienceBinding ==
    (CitingPushed /\ ~(pc = "refute" /\ "invalidDelegation" \in TagsOf(VectorOf(pc)[idx - 1]))) =>
        \A proof \in CitedProofs :
            /\ PayloadDecodes(proof)
            /\ Ascii("iss") \in DOMAIN PayloadMapOf(VectorOf(pc)[idx - 1].inputs.token)
            /\ PayloadMapOf(VectorOf(pc)[idx - 1].inputs.token)[Ascii("iss")]
                 = PayloadMapOf(proof)[Ascii("aud")]

\* a < b for two numbers written in decimal digits without leading zeros.
NumLess(a, b) == Len(a) < Len(b) \/ (Len(a) = Len(b) /\ TextLess(a, b))

\* The exp of a payload: a number, or none (null: the token never expires);
\* and its nbf: a number, or none (absent: the token is ready at once).
ExpOf(payload) ==
    IF Ascii("exp") \in DOMAIN payload /\ payload[Ascii("exp")].t = "num"
    THEN Some(payload[Ascii("exp")].n) ELSE None
NbfOf(payload) ==
    IF Ascii("nbf") \in DOMAIN payload /\ payload[Ascii("nbf")].t = "num"
    THEN Some(payload[Ascii("nbf")].n) ELSE None

\* The delegate expires later than the proof: the proof expires, and the
\* delegate never does or does so at a greater time.
ExpiresLater(delegate, proof) ==
    /\ ExpOf(proof).some
    /\ ExpOf(delegate).some => NumLess(ExpOf(proof).v, ExpOf(delegate).v)

\* The delegate is ready earlier than the proof: the proof has an nbf, and
\* the delegate has none or a smaller one.
ReadyEarlier(delegate, proof) ==
    /\ NbfOf(proof).some
    /\ NbfOf(delegate).some => NumLess(NbfOf(delegate).v, NbfOf(proof).v)

\* The pushed fixture's token outlasts or precedes one of the proofs it cites.
ExceedsProofBounds ==
    \E proof \in CitedProofs, delegate \in { PayloadMapOf(VectorOf(pc)[idx - 1].inputs.token) } :
        /\ PayloadDecodes(proof)
        /\ \/ ExpiresLater(delegate, PayloadMapOf(proof))
           \/ ReadyEarlier(delegate, PayloadMapOf(proof))

\* C16 (chained time bounds): a refute fixture citing a proof is tagged
\* timeBoundsViolation exactly when its token expires later than a cited
\* proof or is ready earlier than one; no verify fixture citing a proof
\* does either.
C16_ChainedTimeBounds ==
    CitingPushed =>
        /\ pc = "verify" => ~ExceedsProofBounds
        /\ pc = "refute" => ("timeBoundsViolation" \in TagsOf(Pushed) <=> ExceedsProofBounds)

\* C16 witness: a refute fixture tagged timeBoundsViolation whose token
\* and cited proof both expire, the token later.
C16_Witness ==
    /\ CitingPushed /\ pc = "refute"
    /\ "timeBoundsViolation" \in TagsOf(Pushed)
    /\ \E proof \in CitedProofs :
         /\ ExpOf(PayloadMapOf(proof)).some
         /\ ExpOf(PayloadMapOf(Pushed.inputs.token)).some
         /\ ExpiresLater(PayloadMapOf(Pushed.inputs.token), PayloadMapOf(proof))

\* The rule-violation tags of the taxonomy, as written.
ErrorTags ==
    { Ascii("expired"), Ascii("notReady"), Ascii("timeBoundsViolation"),
      Ascii("missingField"), Ascii("incorrectType"), Ascii("incorrectProofs"),
      Ascii("invalidDelegation") }

\* The task value each generator's fixtures are written with.
TaskValue(generator) ==
    CASE generator = "verify" -> Ascii("verify")
      [] generator = "refute" -> Ascii("refute")
      [] generator = "build"  -> Ascii("build")
      [] generator = "to_cid" -> Ascii("toCID")

\* C17 (error tags are carried by refute fixtures only): as written, a
\* refute fixture has task "refute" and an errors list that is not empty
\* and holds tags of the taxonomy only; a verify, build or toCID fixture
\* has its own task value and no errors member.
C17_ErrorTags ==
    JustPushed =>
        \E value \in { to_value(VectorOf(pc)[idx - 1]).o } :
            /\ Ascii("task") \in DOMAIN value
            /\ value[Ascii("task")] = JStr(TaskValue(pc))
            /\ pc # "refute" => Ascii("errors") \notin DOMAIN value
            /\ pc = "refute" =>
                 /\ Ascii("errors") \in DOMAIN value
                 /\ value[Ascii("errors")].t = "arr"
                 /\ value[Ascii("errors")].a # <<>>
                 /\ \A i \in 1..Len(value[Ascii("errors")].a) :
                      /\ value[Ascii("errors")].a[i].t = "str"
                      /\ value[Ascii("errors")].a[i].s \in ErrorTags

\* C17 witness: a refute fixture is written with the tag incorrectProofs,
\* after the verify fixtures were pushed.
C17_Witness ==
    /\ JustPushed /\ pc = "refute"
    /\ Len(verify_fixtures) = Len(verify_generate)
    /\ to_value(Pushed).o[Ascii("errors")] = JArr(<< JStr(Ascii("incorrectProofs")) >>)
    /\ to_value(Pushed).o[Ascii("task")] = JStr(Ascii("refute"))

\* A generator of fixtures with assertions has just pushed a fixture whose
\* token has three parts, header and payload both decoding.
AssertedPushed ==
    /\ JustPushed /\ pc \in { "verify", "refute" }
    /\ \E parts \in { Split(VectorOf(pc)[idx - 1].inputs.token) } :
         Len(parts) = 3 /\ part_to_map(parts[1]).ok /\ part_to_map(parts[2]).ok

\* The two parts a fixture asserts on: the one of the written assertions
\* and the one the token carries, decoded.
AssertedParts(fixture) ==
    { [ part    |-> p[1],
        written |-> SerializeAssertions(fixture.assertions).o[Ascii(p[1])].o,
        carried |-> part_to_map(Split(fixture.inputs.token)[p[2]]).map ] :
      p \in { <<"header", 1>>, <<"payload", 2>> } }

\* Every field the written assertions hold is in the token with that value.
PresentWithValue(fixture) ==
    \A ap \in AssertedParts(fixture) :
        \A f \in DOMAIN ap.written :
            f \in DOMAIN ap.carried /\ ap.written[f] = ap.carried[f]

\* The fields of the token that the written assertions leave out.
AbsentButCarried(fixture) ==
    UNION { { [part |-> ap.part, field |-> f] : f \in DOMAIN ap.carried \ DOMAIN ap.written } :
            ap \in AssertedParts(fixture) }

\* The field whose assertion a refute scenario clears, if it clears one.
Cleared(scenario) ==
    IF scenario.edit.part = "none" THEN {}
    ELSE { [part |-> scenario.edit.part, field |-> Ascii(scenario.edit.field)] }

\* C18 as stated: each asserted field is present with the value the token
\* carries, and a field is left out of the assertions only when the token
\* does not contain it.
C18_AssertionsSnapshotAsStated ==
    AssertedPushed =>
        \E fixture \in { VectorOf(pc)[idx - 1] } :
            /\ PresentWithValue(fixture)
            /\ AbsentButCarried(fixture) = {}

\* C18 (unambiguous assertions snapshot), amended: each asserted field is
\* present with the value the token carries; a verify fixture leaves a
\* field out only when the token does not contain it; a refute fixture
\* leaves out, of the fields its token contains, at most the one field its
\* scenario clears.
C18_AssertionsSnapshot ==
    AssertedPushed =>
        \E fixture \in { VectorOf(pc)[idx - 1] } :
            /\ PresentWithValue(fixture)
            /\ pc = "verify" => AbsentButCarried(fixture) = {}
            /\ pc = "refute" =>
                 AbsentButCarried(fixture) \subseteq Cleared(PushedScenario)

\* C18 witness: a refute fixture whose token carries alg as a number and
\* whose written header assertions hold typ and not alg.
C18_Witness ==
    /\ AssertedPushed /\ pc = "refute"
    /\ AbsentButCarried(Pushed) = { [part |-> "header", field |-> Ascii("alg")] }
    /\ part_to_map(Split(Pushed.inputs.token)[1]).map[Ascii("alg")] = JNum(Ascii("1"))
    /\ Ascii("typ") \in DOMAIN SerializeAssertions(Pushed.assertions).o[Ascii("header")].o

\* The entries of the proofs list the builder was handed for the fixture
\* just pushed: the prf of the token as signed.
HandedProofs ==
    IF ~PayloadDecodes(PreTamper) THEN {}
    ELSE IF Ascii("prf") \notin DOMAIN PayloadMapOf(PreTamper) THEN {}
    ELSE Listed(PayloadMapOf(PreTamper)[Ascii("prf")])

\* The SHA2-256 content identifier of an encoded token.
CidOf(token) == Ascii("bafkrei") \o Letters(Digest(<<18>> \o token))

\* The entry is the identifier of a token signed earlier in this run, and
\* the fixture supplies that token under it.
Resolves(entry, fixture) ==
    /\ entry.t = "str"
    /\ entry.s \in DOMAIN fixture.inputs.proofs
    /\ entry.s = CidOf(fixture.inputs.proofs[entry.s])
    /\ \E j \in 1..(Len(built) - 1) : built[j].token = fixture.inputs.proofs[entry.s]

\* C19 as stated: every entry of the proofs list handed to the builder is
\* the identifier of a token built earlier in the run, supplied under it
\* in inputs.proofs.
C19_ProofsResolvableAsStated ==
    (JustPushed /\ pc \in { "verify", "refute" }) =>
        \A entry \in HandedProofs : Resolves(entry, VectorOf(pc)[idx - 1])

\* C19 (proof references are resolvable), amended: every entry handed to
\* the builder resolves so, except the entry "placeholder" of a refute
\* scenario that goes on to replace the token's prf.
C19_ProofsResolvable ==
    (JustPushed /\ pc \in { "verify", "refute" }) =>
        \A entry \in HandedProofs :
            \/ Resolves(entry, VectorOf(pc)[idx - 1])
            \/ /\ pc = "refute"
               /\ entry = JStr(Ascii("placeholder"))
               /\ PushedScenario.tamper.op = "mutate_field"
               /\ PushedScenario.tamper.field = "prf"
               /\ PayloadDecodes(Pushed.inputs.token)
               /\ entry \notin Listed(PayloadMapOf(Pushed.inputs.token)[Ascii("prf")])

\* C19 witness: a verify fixture was built with two proofs, both made
\* earlier in the run and both supplied with it.
C19_Witness ==
    /\ JustPushed /\ pc = "verify"
    /\ Cardinality(HandedProofs) = 2
    /\ Cardinality(DOMAIN verify_fixtures[idx - 1].inputs.proofs) = 2
    /\ \A entry \in HandedProofs : Resolves(entry, verify_fixtures[idx - 1])

\* C24 (the recorded signature is the emitted token's): in the verify or
\* refute fixture just pushed, assertions.signature is the bytes that the
\* third part of inputs.token encodes.
C24_RecordedSignature ==
    (JustPushed /\ pc \in { "verify", "refute" }) =>
        \E fixture \in { VectorOf(pc)[idx - 1] } :
            /\ Len(Split(fixture.inputs.token)) = 3
            /\ B64Decode(Split(fixture.inputs.token)[3]).ok
            /\ B64Decode(Split(fixture.inputs.token)[3]).bytes = fixture.assertions.signature

\* C25 (the tamper signer is the builder's key): when the refute fixture
\* just pushed was tampered, the key handed to remove_field or mutate_field
\* is the key the scenario built the token with: the key that signed the
\* token as built is the key that signed the token as emitted.
C25_TamperSignerIsBuilder ==
    (RefutePushed /\ PushedScenario.tamper.op # "none") =>
        /\ Identities_new[PushedScenario.tamper.signer]
              = Identities_new[PushedScenario.issuer]
        /\ SignedBy(PreTamper, Identities_new[PushedScenario.issuer])
        /\ SignedBy(Pushed.inputs.token, Identities_new[PushedScenario.issuer])

\* The place, in the record of the run's signings, of the i-th proof of the
\* scenario whose fixture was just pushed: its proofs were signed last
\* before the fixture's token.
ProofPlace(i) == Len(built) - Len(PushedScenario.proofs) + i - 1

\* C23 (proof before delegate): when the fixture just pushed belongs to a
\* scenario that makes proofs, each proof was signed, under the scenario's
\* name, before the fixture's token was, and the prf of the token as signed
\* lists the content identifiers of those proof tokens, in the order the
\* proofs were made.
C23_ProofBeforeDelegate ==
    (JustPushed /\ pc \in { "verify", "refute" } /\ PushedScenario.proofs # <<>>) =>
        /\ Len(built) > Len(PushedScenario.proofs)
        /\ built[Len(built)].role = "fixture"
        /\ \A i \in 1..Len(PushedScenario.proofs) :
              /\ built[ProofPlace(i)].role = "proof"
              /\ built[ProofPlace(i)].name = PushedScenario.name
        /\ PayloadDecodes(PreTamper)
        /\ Ascii("prf") \in DOMAIN PayloadMapOf(PreTamper)
        /\ PayloadMapOf(PreTamper)[Ascii("prf")] =
              JArr([i \in 1..Len(PushedScenario.proofs) |->
                       JStr(CidOf(built[ProofPlace(i)].token))])

\* C23 witness: the fixture of merges_delegated_capabilities was pushed
\* after its two proofs, which are different tokens, were signed.
C23_Witness ==
    /\ JustPushed /\ pc = "verify"
    /\ PushedScenario.name = "UCAN merges delegated capabilities"
    /\ Len(PushedScenario.proofs) = 2
    /\ built[ProofPlace(1)].role = "proof" /\ built[ProofPlace(2)].role = "proof"
    /\ built[ProofPlace(1)].token # built[ProofPlace(2)].token

\* Both runs have filled their catalog.
BothCatalogs == run = "second" /\ all_fixtures # <<>> /\ prev_all # <<>>

\* C26 (run-to-run reproducibility): the catalog of the second run is the
\* catalog of the first: the same fixtures, each equal in every field, at
\* the same positions.
C26_Reproducible ==
    BothCatalogs =>
        /\ Len(all_fixtures) = Len(prev_all)
        /\ \A i \in 1..Len(all_fixtures) : all_fixtures[i] = prev_all[i]

\* The one fixture made, the payload of its token as signed and as emitted,
\* and the payload of its serialized assertions.
Made == pc = "made" /\ Len(all_fixtures) = 1
MadeFixture == IF verify_fixtures # <<>> THEN verify_fixtures[1] ELSE refute_fixtures[1]
SignedPayload   == PayloadMapOf(built[1].token)
EmittedPayload  == PayloadMapOf(MadeFixture.inputs.token)
AssertedPayload == all_fixtures[1].o[Ascii("assertions")].o[Ascii("payload")].o

\* The emitted token no longer carries the exp it was signed with.
TamperedOnExp ==
    \/ Ascii("exp") \notin DOMAIN EmittedPayload
    \/ EmittedPayload[Ascii("exp")] # SignedPayload[Ascii("exp")]

\* C27 (faithful exp assertion): the serialized assertions of a fixture
\* whose token was built with expiration v and not tampered on exp hold
\* exp = v, and exp = null when it was built without expiration; the exp
\* key is missing from them only when the token's exp was removed or
\* changed.
C27_FaithfulExp ==
    Made =>
        /\ ~TamperedOnExp =>
              /\ Ascii("exp") \in DOMAIN AssertedPayload
              /\ AssertedPayload[Ascii("exp")] = SignedPayload[Ascii("exp")]
        /\ Ascii("exp") \notin DOMAIN AssertedPayload => TamperedOnExp

\* The five files of a run.
OutputFiles ==
    { FileOf(stage) : stage \in { "write_verify", "write_refute", "write_build",
                                  "write_cid", "write_all" } }

\* C28 (output writing is all-or-nothing): a run whose four generators
\* returned and that completes normally has written all five files; a
\* write that failed has not let main return normally.
C28_AllOrNothing ==
    pc = "done" =>
        /\ DOMAIN files = OutputFiles
        /\ printed = <<>>

\* The label of the algorithm that gives the token the fixture's cid.
ComputedWith(fixture) ==
    IF fixture.outputs.cid = CidOf(fixture.inputs.token) THEN "SHA2-256"
    ELSE IF fixture.outputs.cid
              = Ascii("bafkr4i") \o Letters(Digest(<<30>> \o fixture.inputs.token))
         THEN "BLAKE3-256"
    ELSE "none"

\* C29 (the hasher label matches the identifier): the cid of every toCID
\* fixture is the identifier of its token under the algorithm that
\* inputs.hasher names; no fixture records a label, supported or not,
\* other than that of the algorithm that computed its cid.
C29_HasherLabel ==
    \A i \in 1..Len(to_cid_fixtures) :
        ComputedWith(to_cid_fixtures[i]) = to_cid_fixtures[i].inputs.hasher

=============================================================================
